---- MODULE Spec2Model ----
(***************************************************************************)
(* Governance core of data-fabric: tenant-boundary authorization           *)
(* (tenant_security.rs), the in-process sliding-window limiter with its    *)
(* circuit breaker (tenant_security.rs), the request gateway (tenant.rs,   *)
(* lib.rs) and the bundle-driven policy engine with its durable counter    *)
(* (policy.rs, db.rs).                                                     *)
(*                                                                         *)
(* Each component has its own specification over its own variables; the    *)
(* variables of the other components stay at their initial value.          *)
(***************************************************************************)
EXTENDS Integers, Sequences, FiniteSets, TLC

VARIABLES
    \* ---- AuthzEngine (tenant_security.rs) ----
    claims,       \* TokenClaims of the call being evaluated
    resource,     \* Resource of the call being evaluated
    action,       \* Permission requested
    authz_result, \* result of evaluate_authz, or NoResult before the call
    \* ---- in-process RateLimiter (tenant_security.rs) ----
    config,       \* TenantRateLimitConfig of the limiter's tenant
    state,        \* RateLimitState
    now_ms,       \* the clock the caller reads now_ms from
    ticks,        \* number of clock advances so far
    admitted,     \* history: timestamps of every call that returned Ok, in order
    fail_run,     \* history: record_failure calls since the last record_success or auto-close
    tripped,      \* history: fail_run has reached CIRCUIT_BREAKER_THRESHOLD at some point
    last,         \* the last limiter operation: its input, its result, the state before it
    \* ---- TenantGateway and PolicyEngine (lib.rs, tenant.rs, policy.rs, db.rs) ----
    kv_bound,     \* the POLICY_KV binding is configured for this deployment
    kv,           \* POLICY_KV: key -> value
    r2_objects,   \* ARTIFACTS bucket: key -> payload
    policy_decisions,           \* D1 table, rows in insertion order
    policy_escalations,         \* D1 table, rows in insertion order
    policy_rate_limit_counters, \* D1 table: id -> row
    now_s,        \* Date.now() / 1000
    clock_ticks,  \* number of clock advances so far
    pc,           \* per request slot: the await the handler is suspended at
    tenant_ctx,   \* per request slot: TenantContext built by the gateway
    req,          \* per request slot: the HTTP request
    loc,          \* per request slot: local variables of the handler
    resp,         \* per request slot: the response, once finished
    issued,       \* number of requests received so far
    next_id,      \* source of fresh random_hex_id values
    own_hits,     \* history: (tenant, counter id) -> create-or-increment steps by that tenant
    issuer,       \* history: decision id -> tenant whose check produced it
    activators,   \* history: roles of the requests that wrote the active-version pointer
    admits,       \* history: counter id -> checks reported not exceeded, and their limit
    faults,       \* number of store calls that have returned an error so far
    \* ---- check_and_increment_rate_limit called one call after another (db.rs) ----
    counter_call, \* the last call: its arguments, the clock it read, its result
    key_checks,   \* history: counter id -> calls made on that id so far
    \* ---- pure functions called on their own (tenant.rs, tenant_security.rs, policy.rs, db.rs) ----
    fn_call,      \* the function being called and its arguments
    fn_result,    \* what the call returned, or NoReturn before it returns
    \* ---- the task queue (db.rs) ----
    mcp_tasks,    \* D1 table: id -> row
    task_calls,   \* per call slot: the call in progress, its locals, what it returned
    task_hist     \* history: task id -> claims, completions and fail_task calls so far

authzVars   == <<claims, resource, action, authz_result>>
limiterVars == <<config, state, now_ms, ticks, admitted, fail_run, tripped, last>>
storeVars   == <<kv_bound, kv, r2_objects, policy_decisions, policy_escalations,
                 policy_rate_limit_counters>>
procVars    == <<pc, tenant_ctx, req, loc, resp>>
histVars    == <<own_hits, issuer, activators>>
counterVars == <<counter_call, key_checks>>
envVars     == <<admits, faults>>
fnVars      == <<fn_call, fn_result>>
taskVars    == <<mcp_tasks, task_calls, task_hist>>
policyVars  == <<storeVars, now_s, clock_ticks, procVars, issued, next_id, histVars,
                 counterVars, envVars, fnVars, taskVars>>
vars        == <<authzVars, limiterVars, policyVars>>

\* Option<T>
None    == [some |-> FALSE, v |-> 0]
Some(x) == [some |-> TRUE, v |-> x]

Tenants == {"t1", "t2"}

(***************************************************************************)
(* AuthzEngine                                                             *)
(***************************************************************************)
Permission == {"Read", "Write", "Admin", "Federation"}
Role       == {"Reader", "Contributor", "Admin", "SystemService"}
ResourceTypes == {"run", "artifact"}

\* SystemService is given the Admin permission as well
AuthzPolicy_default_service_admin ==
    [k \in {<<r, "*">> : r \in Role} |->
        CASE k[1] = "Reader"        -> {"Read"}
          [] k[1] = "Contributor"   -> {"Read", "Write"}
          [] k[1] = "Admin"         -> {"Read", "Write", "Admin", "Federation"}
          [] k[1] = "SystemService" -> {"Read", "Write", "Admin", "Federation"}]

\* (role, resource_type) -> set of permissions; only wildcard entries exist
AuthzPolicy_default ==
    [k \in {<<r, "*">> : r \in Role} |->
        CASE k[1] = "Reader"        -> {"Read"}
          [] k[1] = "Contributor"   -> {"Read", "Write"}
          [] k[1] = "Admin"         -> {"Read", "Write", "Admin", "Federation"}
          [] k[1] = "SystemService" -> {"Read", "Write", "Federation"}]

permissions_for_role_resource(rules, role, resource_type) ==
    IF <<role, resource_type>> \in DOMAIN rules THEN rules[<<role, resource_type>>]
    ELSE IF <<role, "*">> \in DOMAIN rules THEN rules[<<role, "*">>]
    ELSE {}

AuthzOk == [kind |-> "Ok"]
CrossTenantAccess(rq, rs) ==
    [kind |-> "CrossTenantAccess", requesting_tenant |-> rq, resource_tenant |-> rs]
PermissionDenied(role, required) ==
    [kind |-> "PermissionDenied", role |-> role, required |-> required]
NoResult == [kind |-> "none"]

\* a plausible slip: the permission check is done first
evaluate_authz_permfirst(c, r, a) ==
    LET effective == IF c.scoped_permissions.some THEN c.scoped_permissions.v
                     ELSE permissions_for_role_resource(AuthzPolicy_default, c.role, r.resource_type)
    IN IF a \notin effective THEN PermissionDenied(c.role, a)
       ELSE IF c.tenant_id # r.tenant_id THEN CrossTenantAccess(c.tenant_id, r.tenant_id)
       ELSE AuthzOk

\* the scoped permissions are added to the role's permissions
evaluate_authz_scoped_union(c, r, a) ==
    IF c.tenant_id # r.tenant_id
    THEN CrossTenantAccess(c.tenant_id, r.tenant_id)
    ELSE LET by_role == permissions_for_role_resource(AuthzPolicy_default, c.role, r.resource_type)
             effective == IF c.scoped_permissions.some
                          THEN c.scoped_permissions.v \cup by_role
                          ELSE by_role
         IN IF a \in effective THEN AuthzOk ELSE PermissionDenied(c.role, a)

evaluate_authz(c, r, a) ==
    IF c.tenant_id # r.tenant_id
    THEN CrossTenantAccess(c.tenant_id, r.tenant_id)
    ELSE LET effective == IF c.scoped_permissions.some THEN c.scoped_permissions.v
                          ELSE permissions_for_role_resource(AuthzPolicy_default, c.role, r.resource_type)
         IN IF a \in effective THEN AuthzOk ELSE PermissionDenied(c.role, a)

TokenClaimsSet ==
    [tenant_id : Tenants, role : Role,
     scoped_permissions : {None} \cup {Some(s) : s \in SUBSET Permission}]
ResourceSet == [tenant_id : Tenants, resource_type : ResourceTypes, resource_id : {"r1"}]

AuthzInit ==
    /\ claims \in TokenClaimsSet
    /\ resource \in ResourceSet
    /\ action \in Permission
    /\ authz_result = NoResult

AuthzIdle ==
    /\ claims = [tenant_id |-> "t1", role |-> "Reader", scoped_permissions |-> None]
    /\ resource = [tenant_id |-> "t1", resource_type |-> "run", resource_id |-> "r1"]
    /\ action = "Read"
    /\ authz_result = NoResult

EvaluateAuthz ==
    /\ authz_result = NoResult
    /\ authz_result' = evaluate_authz(claims, resource, action)
    /\ UNCHANGED <<claims, resource, action, limiterVars, policyVars>>

\* the caller issues another call
NewAuthzCall ==
    /\ authz_result # NoResult
    /\ claims' \in TokenClaimsSet
    /\ resource' \in ResourceSet
    /\ action' \in Permission
    /\ authz_result' = NoResult
    /\ UNCHANGED <<limiterVars, policyVars>>

(***************************************************************************)
(* In-process sliding-window limiter and circuit breaker                   *)
(***************************************************************************)
CIRCUIT_BREAKER_THRESHOLD == 5
CIRCUIT_COOLDOWN_MS == 30000
WINDOW_MS == 60000

MaxRpm      == 2
MaxBurst    == 1
MaxTicks    == 5
MaxFailures == 6
TimeSteps   == {1, 29999}

RateLimitState_new ==
    [window_hits |-> <<>>, consecutive_failures |-> 0, circuit_open_until |-> None]

\* slip: a success resets the whole limiter state
record_success_resets_all(s) == RateLimitState_new

record_success(s) == [s EXCEPT !.consecutive_failures = 0]
record_failure(s) == [s EXCEPT !.consecutive_failures = @ + 1]

RlOk == [kind |-> "Ok"]
Exceeded(t, limit) == [kind |-> "Exceeded", tenant_id |-> t, limit |-> limit]
CircuitOpen(t, until) == [kind |-> "CircuitOpen", tenant_id |-> t, until_ms |-> until]

SaturatingSub(a, b) == IF a >= b THEN a - b ELSE 0

\* slip: the cooldown is added in seconds, not milliseconds
check_rate_limit_cooldown_in_seconds(tenant_id, cfg, s, now) ==
    IF s.circuit_open_until.some /\ now < s.circuit_open_until.v
    THEN [state |-> s, result |-> CircuitOpen(tenant_id, s.circuit_open_until.v)]
    ELSE
      LET s1 == IF s.circuit_open_until.some
                THEN [s EXCEPT !.circuit_open_until = None, !.consecutive_failures = 0]
                ELSE s
      IN IF s1.consecutive_failures >= CIRCUIT_BREAKER_THRESHOLD
         THEN LET until == now + CIRCUIT_COOLDOWN_MS \div 1000
              IN [state  |-> [s1 EXCEPT !.circuit_open_until = Some(until)],
                  result |-> CircuitOpen(tenant_id, until)]
         ELSE
           LET window_start    == SaturatingSub(now, WINDOW_MS)
               kept            == SelectSeq(s1.window_hits, LAMBDA ts : ts >= window_start)
               s2              == [s1 EXCEPT !.window_hits = kept]
               effective_limit == cfg.requests_per_minute + cfg.burst_limit
           IN IF Len(kept) >= effective_limit
              THEN [state |-> s2, result |-> Exceeded(tenant_id, cfg.requests_per_minute)]
              ELSE [state  |-> [s2 EXCEPT !.window_hits = Append(kept, now)],
                    result |-> RlOk]

\* slip: a check made during the cooldown restarts the cooldown
check_rate_limit_extends_cooldown(tenant_id, cfg, s, now) ==
    IF s.circuit_open_until.some /\ now < s.circuit_open_until.v
    THEN [state  |-> [s EXCEPT !.circuit_open_until = Some(now + CIRCUIT_COOLDOWN_MS)],
          result |-> CircuitOpen(tenant_id, now + CIRCUIT_COOLDOWN_MS)]
    ELSE
      LET s1 == IF s.circuit_open_until.some
                THEN [s EXCEPT !.circuit_open_until = None, !.consecutive_failures = 0]
                ELSE s
      IN IF s1.consecutive_failures >= CIRCUIT_BREAKER_THRESHOLD
         THEN LET until == now + CIRCUIT_COOLDOWN_MS
              IN [state  |-> [s1 EXCEPT !.circuit_open_until = Some(until)],
                  result |-> CircuitOpen(tenant_id, until)]
         ELSE
           LET window_start    == SaturatingSub(now, WINDOW_MS)
               kept            == SelectSeq(s1.window_hits, LAMBDA ts : ts >= window_start)
               s2              == [s1 EXCEPT !.window_hits = kept]
               effective_limit == cfg.requests_per_minute + cfg.burst_limit
           IN IF Len(kept) >= effective_limit
              THEN [state |-> s2, result |-> Exceeded(tenant_id, cfg.requests_per_minute)]
              ELSE [state  |-> [s2 EXCEPT !.window_hits = Append(kept, now)],
                    result |-> RlOk]

\* slip: closing the circuit leaves the failure counter as it is
check_rate_limit_keeps_failures(tenant_id, cfg, s, now) ==
    IF s.circuit_open_until.some /\ now < s.circuit_open_until.v
    THEN [state |-> s, result |-> CircuitOpen(tenant_id, s.circuit_open_until.v)]
    ELSE
      LET s1 == IF s.circuit_open_until.some
                THEN [s EXCEPT !.circuit_open_until = None]
                ELSE s
      IN IF s1.consecutive_failures >= CIRCUIT_BREAKER_THRESHOLD
         THEN LET until == now + CIRCUIT_COOLDOWN_MS
              IN [state  |-> [s1 EXCEPT !.circuit_open_until = Some(until)],
                  result |-> CircuitOpen(tenant_id, until)]
         ELSE
           LET window_start    == SaturatingSub(now, WINDOW_MS)
               kept            == SelectSeq(s1.window_hits, LAMBDA ts : ts >= window_start)
               s2              == [s1 EXCEPT !.window_hits = kept]
               effective_limit == cfg.requests_per_minute + cfg.burst_limit
           IN IF Len(kept) >= effective_limit
              THEN [state |-> s2, result |-> Exceeded(tenant_id, cfg.requests_per_minute)]
              ELSE [state  |-> [s2 EXCEPT !.window_hits = Append(kept, now)],
                    result |-> RlOk]

\* slip: the window is compared with > instead of >=
check_rate_limit_off_by_one(tenant_id, cfg, s, now) ==
    IF s.circuit_open_until.some /\ now < s.circuit_open_until.v
    THEN [state |-> s, result |-> CircuitOpen(tenant_id, s.circuit_open_until.v)]
    ELSE
      LET s1 == IF s.circuit_open_until.some
                THEN [s EXCEPT !.circuit_open_until = None, !.consecutive_failures = 0]
                ELSE s
      IN IF s1.consecutive_failures >= CIRCUIT_BREAKER_THRESHOLD
         THEN LET until == now + CIRCUIT_COOLDOWN_MS
              IN [state  |-> [s1 EXCEPT !.circuit_open_until = Some(until)],
                  result |-> CircuitOpen(tenant_id, until)]
         ELSE
           LET window_start    == SaturatingSub(now, WINDOW_MS)
               kept            == SelectSeq(s1.window_hits, LAMBDA ts : ts >= window_start)
               s2              == [s1 EXCEPT !.window_hits = kept]
               effective_limit == cfg.requests_per_minute + cfg.burst_limit
           IN IF Len(kept) > effective_limit
              THEN [state |-> s2, result |-> Exceeded(tenant_id, cfg.requests_per_minute)]
              ELSE [state  |-> [s2 EXCEPT !.window_hits = Append(kept, now)],
                    result |-> RlOk]

\* returns the state after the call and the call's result
check_rate_limit(tenant_id, cfg, s, now) ==
    IF s.circuit_open_until.some /\ now < s.circuit_open_until.v
    THEN [state |-> s, result |-> CircuitOpen(tenant_id, s.circuit_open_until.v)]
    ELSE
      LET s1 == IF s.circuit_open_until.some
                THEN [s EXCEPT !.circuit_open_until = None, !.consecutive_failures = 0]
                ELSE s
      IN IF s1.consecutive_failures >= CIRCUIT_BREAKER_THRESHOLD
         THEN LET until == now + CIRCUIT_COOLDOWN_MS
              IN [state  |-> [s1 EXCEPT !.circuit_open_until = Some(until)],
                  result |-> CircuitOpen(tenant_id, until)]
         ELSE
           LET window_start    == SaturatingSub(now, WINDOW_MS)
               kept            == SelectSeq(s1.window_hits, LAMBDA ts : ts >= window_start)
               s2              == [s1 EXCEPT !.window_hits = kept]
               effective_limit == cfg.requests_per_minute + cfg.burst_limit
           IN IF Len(kept) >= effective_limit
              THEN [state |-> s2, result |-> Exceeded(tenant_id, cfg.requests_per_minute)]
              ELSE [state  |-> [s2 EXCEPT !.window_hits = Append(kept, now)],
                    result |-> RlOk]

LimiterTenant == "t1"

NoOp == [op |-> "none", now |-> 0, result |-> NoResult, pre |-> RateLimitState_new, pre_run |-> 0]

LimiterInit ==
    /\ config \in [requests_per_minute : 1..MaxRpm, burst_limit : 0..MaxBurst]
    /\ state = RateLimitState_new
    /\ now_ms = 0
    /\ ticks = 0
    /\ admitted = <<>>
    /\ fail_run = 0
    /\ tripped = FALSE
    /\ last = NoOp

LimiterIdle ==
    /\ config = [requests_per_minute |-> 1, burst_limit |-> 0]
    /\ state = RateLimitState_new
    /\ now_ms = 0
    /\ ticks = 0
    /\ admitted = <<>>
    /\ fail_run = 0
    /\ tripped = FALSE
    /\ last = NoOp

Tick ==
    /\ ticks < MaxTicks
    /\ \E d \in TimeSteps : now_ms' = now_ms + d
    /\ ticks' = ticks + 1
    /\ UNCHANGED <<config, state, admitted, fail_run, tripped, last, authzVars, policyVars>>

\* the call finds an elapsed cooldown and closes the circuit
AutoCloses(s, now) == s.circuit_open_until.some /\ now >= s.circuit_open_until.v

CheckRateLimit ==
    LET r == check_rate_limit(LimiterTenant, config, state, now_ms)
    IN /\ state' = r.state
       /\ last' = [op |-> "check", now |-> now_ms, result |-> r.result,
                   pre |-> state, pre_run |-> fail_run]
       /\ admitted' = IF r.result.kind = "Ok" THEN Append(admitted, now_ms) ELSE admitted
       /\ fail_run' = IF AutoCloses(state, now_ms) THEN 0 ELSE fail_run
       /\ UNCHANGED <<config, now_ms, ticks, tripped, authzVars, policyVars>>

RecordSuccess ==
    /\ state' = record_success(state)
    /\ last' = [op |-> "success", now |-> now_ms, result |-> NoResult,
                pre |-> state, pre_run |-> fail_run]
    /\ fail_run' = 0
    /\ UNCHANGED <<config, now_ms, ticks, admitted, tripped, authzVars, policyVars>>

RecordFailure ==
    /\ state.consecutive_failures < MaxFailures
    /\ state' = record_failure(state)
    /\ last' = [op |-> "failure", now |-> now_ms, result |-> NoResult,
                pre |-> state, pre_run |-> fail_run]
    /\ fail_run' = fail_run + 1
    /\ tripped' = (tripped \/ fail_run + 1 >= CIRCUIT_BREAKER_THRESHOLD)
    /\ UNCHANGED <<config, now_ms, ticks, admitted, authzVars, policyVars>>

(***************************************************************************)
(* Strings: Rust str operations used by the gateway and the policy engine  *)
(***************************************************************************)
NoneStr == [some |-> FALSE, v |-> ""]

UpperChars == "ABCDEFGHIJKLMNOPQRSTUVWXYZ"
LowerChars == "abcdefghijklmnopqrstuvwxyz"

\* u8::to_ascii_lowercase as a table: 'A'..'Z' map to 'a'..'z'
AsciiLowerTable ==
    [c \in {SubSeq(UpperChars, i, i) : i \in 1..26} |->
        LET i == CHOOSE k \in 1..26 : SubSeq(UpperChars, k, k) = c
        IN SubSeq(LowerChars, i, i)]

to_ascii_lowercase_char(c) ==
    IF c \in DOMAIN AsciiLowerTable THEN AsciiLowerTable[c] ELSE c

RECURSIVE to_ascii_lowercase(_)
to_ascii_lowercase(s) ==
    IF Len(s) = 0 THEN ""
    ELSE to_ascii_lowercase_char(SubSeq(s, 1, 1)) \o to_ascii_lowercase(SubSeq(s, 2, Len(s)))

starts_with(s, prefix) ==
    Len(s) >= Len(prefix) /\ SubSeq(s, 1, Len(prefix)) = prefix

\* str::find: 1-based index of the first occurrence of part in s, 0 when absent
find(s, part) ==
    LET occ == {i \in 1..(Len(s) - Len(part) + 1) : SubSeq(s, i, i + Len(part) - 1) = part}
    IN IF occ = {} THEN 0 ELSE CHOOSE i \in occ : \A j \in occ : i <= j

contains(s, part) == find(s, part) # 0

\* str::split on a one-character separator
RECURSIVE split(_, _)
split(s, sep) ==
    LET i == find(s, sep)
    IN IF i = 0 THEN <<s>>
       ELSE <<SubSeq(s, 1, i - 1)>> \o split(SubSeq(s, i + 1, Len(s)), sep)

(***************************************************************************)
(* PolicyEngine: pure functions (policy.rs)                                *)
(***************************************************************************)
RiskLevel == {"Low", "Medium", "High", "Critical"}
RiskRank  == [Low |-> 0, Medium |-> 1, High |-> 2, Critical |-> 3]
RuleEffect == {"Allow", "Deny", "Escalate"}

has_any(s, terms) == \E t \in terms : contains(s, t)

\* the High keywords are tested before the Critical ones
classify_risk_high_first(act, res, ctx) ==
    LET a   == to_ascii_lowercase(act)
        r   == to_ascii_lowercase(IF res.some THEN res.v ELSE "")
        c   == IF ctx.some THEN to_ascii_lowercase(ctx.v) ELSE ""
        hay == a \o " " \o r \o " " \o c
    IN IF has_any(hay, {"deploy", "delete", "drop", "credential", "secret",
                        "production", "prod", "revoke", "merge-main", "push-main"})
       THEN "High"
       ELSE IF has_any(hay, {"wipe", "destroy", "terminate", "root-key", "irreversible",
                             "hard-delete"})
       THEN "Critical"
       ELSE IF has_any(hay, {"create", "update", "write", "put", "patch", "commit", "index"})
       THEN "Medium"
       ELSE IF has_any(hay, {"read", "get", "list", "query", "search", "status", "health",
                             "trace"})
       THEN "Low"
       ELSE "Medium"

\* resource and context are Option<String>; context is the JSON text of the value
classify_risk(act, res, ctx) ==
    LET a   == to_ascii_lowercase(act)
        r   == to_ascii_lowercase(IF res.some THEN res.v ELSE "")
        c   == IF ctx.some THEN to_ascii_lowercase(ctx.v) ELSE ""
        hay == a \o " " \o r \o " " \o c
    IN IF has_any(hay, {"wipe", "destroy", "terminate", "root-key", "irreversible",
                        "hard-delete"})
       THEN "Critical"
       ELSE IF has_any(hay, {"deploy", "delete", "drop", "credential", "secret",
                             "production", "prod", "revoke", "merge-main", "push-main"})
       THEN "High"
       ELSE IF has_any(hay, {"create", "update", "write", "put", "patch", "commit", "index"})
       THEN "Medium"
       ELSE IF has_any(hay, {"read", "get", "list", "query", "search", "status", "health",
                             "trace"})
       THEN "Low"
       ELSE "Medium"

classify_action_class(act, risk) ==
    LET a == to_ascii_lowercase(act)
    IN IF contains(a, "deploy") THEN "deploy"
       ELSE IF contains(a, "delete") \/ contains(a, "drop") THEN "delete"
       ELSE CASE risk = "Low"      -> "read"
              [] risk = "Medium"   -> "write"
              [] risk = "High"     -> "high_risk"
              [] risk = "Critical" -> "critical"

RateLimitRule(class, window, max) ==
    [action_class |-> class, window_seconds |-> window, max_requests |-> max]

default_rate_limit_for(risk) ==
    CASE risk = "Low"      -> RateLimitRule("read", 60, 240)
      [] risk = "Medium"   -> RateLimitRule("write", 60, 120)
      [] risk = "High"     -> RateLimitRule("high_risk", 60, 30)
      [] risk = "Critical" -> RateLimitRule("critical", 60, 10)

\* the loop over the non-empty parts of the pattern; pos is the 0-based offset
RECURSIVE wildcard_parts(_, _, _)
wildcard_parts(parts, v, pos) ==
    IF parts = <<>> THEN TRUE
    ELSE LET found == find(SubSeq(v, pos + 1, Len(v)), Head(parts))
         IN IF found = 0 THEN FALSE
            ELSE wildcard_parts(Tail(parts), v, pos + (found - 1) + Len(Head(parts)))

wildcard_match(pattern, value) ==
    IF pattern = "*" THEN TRUE
    ELSE LET p == to_ascii_lowercase(pattern)
             v == to_ascii_lowercase(value)
         IN IF ~contains(p, "*") THEN p = v
            ELSE wildcard_parts(SelectSeq(split(p, "*"), LAMBDA part : part # ""), v, 0)

PolicyRule(id, effect, act, res, actor, min_risk, reason) ==
    [id |-> id, effect |-> effect, action |-> act, resource |-> res, actor |-> actor,
     min_risk |-> min_risk, reason |-> reason]

rule_matches(rule, act, res, actor, risk) ==
    /\ ~(rule.min_risk.some /\ RiskRank[risk] < RiskRank[rule.min_risk.v])
    /\ wildcard_match(rule.action, act)
    /\ wildcard_match(rule.resource, res)
    /\ wildcard_match(rule.actor, actor)

\* the last matching rule of the list is returned
first_matching_rule_last_match(rules, body, risk) ==
    LET act   == to_ascii_lowercase(body.action)
        res   == to_ascii_lowercase(IF body.resource.some THEN body.resource.v ELSE "")
        actor == to_ascii_lowercase(body.actor)
        hits  == {i \in 1..Len(rules) : rule_matches(rules[i], act, res, actor, risk)}
    IN IF hits = {} THEN 0 ELSE CHOOSE i \in hits : \A j \in hits : i >= j

\* index of the first matching rule, 0 when none matches
first_matching_rule(rules, body, risk) ==
    LET act   == to_ascii_lowercase(body.action)
        res   == to_ascii_lowercase(IF body.resource.some THEN body.resource.v ELSE "")
        actor == to_ascii_lowercase(body.actor)
        hits  == {i \in 1..Len(rules) : rule_matches(rules[i], act, res, actor, risk)}
    IN IF hits = {} THEN 0 ELSE CHOOSE i \in hits : \A j \in hits : i <= j

\* the built-in rules with allow-read listed first
default_bundle_allow_first ==
    [version |-> "builtin-2026-02-22",
     rules |-> <<
        PolicyRule("allow-read", "Allow", "*read*", "*", "*",
                   Some("Low"), "read-only actions are auto-approved"),
        PolicyRule("deny-credential-exfiltration", "Deny", "*credential*", "*", "*",
                   Some("High"), "credential operations require dedicated secure channel"),
        PolicyRule("escalate-prod-deploy", "Escalate", "*deploy*", "*prod*", "*",
                   Some("High"), "production deploy requires human-in-the-loop approval") >>,
     rate_limits |-> <<
        RateLimitRule("read", 60, 240),
        RateLimitRule("write", 60, 120),
        RateLimitRule("deploy", 60, 30),
        RateLimitRule("delete", 60, 20) >>]

default_bundle ==
    [version |-> "builtin-2026-02-22",
     rules |-> <<
        PolicyRule("deny-credential-exfiltration", "Deny", "*credential*", "*", "*",
                   Some("High"), "credential operations require dedicated secure channel"),
        PolicyRule("escalate-prod-deploy", "Escalate", "*deploy*", "*prod*", "*",
                   Some("High"), "production deploy requires human-in-the-loop approval"),
        PolicyRule("allow-read", "Allow", "*read*", "*", "*",
                   Some("Low"), "read-only actions are auto-approved") >>,
     rate_limits |-> <<
        RateLimitRule("read", 60, 240),
        RateLimitRule("write", 60, 120),
        RateLimitRule("deploy", 60, 30),
        RateLimitRule("delete", 60, 20) >>]

(***************************************************************************)
(* TenantGateway (tenant.rs) and routing (lib.rs)                          *)
(***************************************************************************)
TenantRole == {"Viewer", "Builder", "Admin"}

is_public_path(path) == path = "/" \/ path = "/health"

\* Some(role), or NoneStr for Err
parse_role(v) ==
    LET l == to_ascii_lowercase(v)
    IN CASE l = "viewer"  -> Some("Viewer")
         [] l = "builder" -> Some("Builder")
         [] l = "admin"   -> Some("Admin")
         [] OTHER         -> NoneStr

CtxErr == [ok |-> FALSE, tenant_id |-> "", role |-> "Viewer"]

\* an empty x-tenant-id is taken as a tenant id
tenant_from_request_accepts_empty_id(r) ==
    IF ~r.headers.tenant_id.some THEN CtxErr
    ELSE LET role == parse_role(IF r.headers.role.some THEN r.headers.role.v ELSE "viewer")
         IN IF ~role.some THEN CtxErr
            ELSE [ok |-> TRUE, tenant_id |-> r.headers.tenant_id.v, role |-> role.v]

\* federation_allowed is read from x-tenant-federation and never used
tenant_from_request(r) ==
    IF ~(r.headers.tenant_id.some /\ r.headers.tenant_id.v # "") THEN CtxErr
    ELSE LET role == parse_role(IF r.headers.role.some THEN r.headers.role.v ELSE "viewer")
         IN IF ~role.some THEN CtxErr
            ELSE [ok |-> TRUE, tenant_id |-> r.headers.tenant_id.v, role |-> role.v]

\* the admin-only routes are guarded for writes only
authorize_admin_routes_readable(c, method, path) ==
    LET is_read == method \in {"GET", "HEAD", "OPTIONS"}
    IN IF (starts_with(path, "/v1/tenants/") \/ starts_with(path, "/v1/policies/activate"))
          /\ ~is_read
       THEN c.role = "Admin"
       ELSE IF starts_with(path, "/v1/policies/rules") /\ ~is_read /\ c.role # "Admin"
       THEN FALSE
       ELSE IF c.role = "Viewer" /\ ~is_read
       THEN FALSE
       ELSE TRUE

\* TRUE for Ok(()), FALSE for Err
authorize(c, method, path) ==
    LET is_read == method \in {"GET", "HEAD", "OPTIONS"}
    IN IF starts_with(path, "/v1/tenants/") \/ starts_with(path, "/v1/policies/activate")
       THEN c.role = "Admin"
       ELSE IF starts_with(path, "/v1/policies/rules") /\ ~is_read /\ c.role # "Admin"
       THEN FALSE
       ELSE IF c.role = "Viewer" /\ ~is_read
       THEN FALSE
       ELSE TRUE

\* a route pattern "prefix/:param": the rest is one non-empty segment
route_param(path, prefix) ==
    IF starts_with(path, prefix)
       /\ Len(path) > Len(prefix)
       /\ ~contains(SubSeq(path, Len(prefix) + 1, Len(path)), "/")
    THEN Some(SubSeq(path, Len(prefix) + 1, Len(path)))
    ELSE NoneStr

\* the Router of fetch, restricted to the policy routes and the health routes
route(method, path) ==
    CASE method = "GET" /\ path \in {"/", "/health"}
            -> [handler |-> "health", param |-> ""]
      [] method = "POST" /\ path = "/v1/policies/check"
            -> [handler |-> "check", param |-> ""]
      [] method = "GET" /\ path = "/v1/policies/decisions"
            -> [handler |-> "decisions", param |-> ""]
      [] method = "PUT" /\ route_param(path, "/v1/policies/definitions/").some
            -> [handler |-> "put_definition",
                param |-> route_param(path, "/v1/policies/definitions/").v]
      [] method = "POST" /\ route_param(path, "/v1/policies/activate/").some
            -> [handler |-> "activate",
                param |-> route_param(path, "/v1/policies/activate/").v]
      [] method = "GET" /\ path = "/v1/policies/active"
            -> [handler |-> "active", param |-> ""]
      [] OTHER
            -> [handler |-> "not_found", param |-> ""]

(***************************************************************************)
(* Stores                                                                  *)
(***************************************************************************)
POLICY_KV_BINDING == "POLICY_KV"
ACTIVE_POLICY_VERSION_KEY == "policy:active_version"
POLICY_RULE_KEY_PREFIX == "policy:rules:"
POLICY_R2_KEY_PREFIX == "policies/"

EmptyMap == [k \in {} |-> 0]
MapPut(f, k, v) == [x \in (DOMAIN f) \cup {k} |-> IF x = k THEN v ELSE f[x]]

Max(a, b) == IF a >= b THEN a ELSE b
Min(a, b) == IF a <= b THEN a ELSE b

(***************************************************************************)
(* Requests the model issues                                               *)
(***************************************************************************)
Procs == {"p1", "p2"}
MaxRequests   == 2
MaxClockTicks == 1
ClockSteps    == {60}

Versions == {"v1", "v2"}
Headers(tenants, roles) == [tenant_id : tenants, role : roles]

NoQuery == [action |-> NoneStr, actor |-> NoneStr, decision |-> NoneStr, limit |-> NoneStr]
NoBody  == [kind |-> "none"]

PolicyCheckBodies ==
    {[kind |-> "check", action |-> a, actor |-> "agent-1", resource |-> NoneStr,
      context |-> NoneStr, run_id |-> NoneStr] : a \in {"read", "deploy"}}

\* bundles sent to PUT /v1/policies/definitions/:version
BundleTight ==
    [version |-> "v1",
     rules |-> << PolicyRule("deny-deploy", "Deny", "*deploy*", "*", "*", NoneStr,
                             "deploys are frozen") >>,
     rate_limits |-> << RateLimitRule("*", 60, 1) >>]
BundleUnversioned ==
    [version |-> "",
     rules |-> << PolicyRule("escalate-all", "Escalate", "*", "*", "*", NoneStr,
                             "everything needs review") >>,
     rate_limits |-> << >>]
BundleInputs ==
    {[valid |-> TRUE, bundle |-> b] : b \in {BundleTight, BundleUnversioned}}
        \cup {[valid |-> FALSE]}

CheckRequests(hs) ==
    {[headers |-> h, method |-> "POST", path |-> "/v1/policies/check",
      query |-> NoQuery, body |-> b] : h \in hs, b \in PolicyCheckBodies}
DecisionQueries ==
    {NoQuery, [NoQuery EXCEPT !.decision = Some("allow"), !.limit = Some("1")]}
DecisionsRequests(hs) ==
    {[headers |-> h, method |-> "GET", path |-> "/v1/policies/decisions",
      query |-> q, body |-> NoBody] : h \in hs, q \in DecisionQueries}
PutDefinitionRequests(hs) ==
    {[headers |-> h, method |-> "PUT", path |-> "/v1/policies/definitions/" \o v,
      query |-> NoQuery, body |-> [kind |-> "put", bundle |-> b, activate |-> a]]
        : h \in hs, v \in Versions, b \in BundleInputs, a \in BOOLEAN}
ActivateRequests(hs) ==
    {[headers |-> h, method |-> "POST", path |-> "/v1/policies/activate/" \o v,
      query |-> NoQuery, body |-> NoBody] : h \in hs, v \in Versions}
ActiveRequests(hs) ==
    {[headers |-> h, method |-> "GET", path |-> "/v1/policies/active",
      query |-> NoQuery, body |-> NoBody] : h \in hs}

\* policy checks and decision history, by two tenants
PolicyRequests ==
    CheckRequests(Headers({Some("t1"), Some("t2")}, {Some("builder")}))
        \cup DecisionsRequests(Headers({Some("t1"), Some("t2")}, {NoneStr}))

\* policy checks of one tenant, on stores that may return errors
EvaluateRequests == CheckRequests(Headers({Some("t1")}, {Some("builder")}))

\* publishing and activation by every role, with policy checks
PublishRequests ==
    PutDefinitionRequests(Headers({Some("t1")}, {NoneStr, Some("builder"), Some("Admin")}))
        \cup ActivateRequests(Headers({Some("t1")}, {NoneStr, Some("builder"), Some("Admin")}))
        \cup ActiveRequests(Headers({Some("t1")}, {NoneStr}))
        \cup CheckRequests(Headers({Some("t1")}, {Some("builder")}))

\* every route behind the gateway and the public ones, with and without a
\* tenant id, with valid, invalid and absent roles
GatewayRoutes ==
    {[method |-> "GET",  path |-> "/",                           body |-> NoBody],
     [method |-> "GET",  path |-> "/health",                     body |-> NoBody],
     [method |-> "POST", path |-> "/health",                     body |-> NoBody],
     [method |-> "POST", path |-> "/v1/policies/check",
      body |-> [kind |-> "check", action |-> "wipe-logs", actor |-> "agent-1",
                resource |-> NoneStr, context |-> NoneStr, run_id |-> NoneStr]],
     [method |-> "GET",  path |-> "/v1/policies/decisions",      body |-> NoBody],
     [method |-> "PUT",  path |-> "/v1/policies/definitions/v1",
      body |-> [kind |-> "put", bundle |-> [valid |-> TRUE, bundle |-> BundleUnversioned],
                activate |-> TRUE]],
     [method |-> "POST", path |-> "/v1/policies/activate/v1",    body |-> NoBody],
     [method |-> "GET",  path |-> "/v1/policies/activate/v1",    body |-> NoBody],
     [method |-> "GET",  path |-> "/v1/policies/active",         body |-> NoBody],
     [method |-> "GET",  path |-> "/v1/unknown",                 body |-> NoBody]}
GatewayRequests ==
    {[headers |-> h, method |-> r.method, path |-> r.path, query |-> NoQuery, body |-> r.body]
        : h \in Headers({NoneStr, Some(""), Some("t1")},
                        {NoneStr, Some("BUILDER"), Some("Admin"), Some("root")}),
          r \in GatewayRoutes}

(***************************************************************************)
(* Request slots                                                           *)
(***************************************************************************)
IdleReq  == [headers |-> [tenant_id |-> NoneStr, role |-> NoneStr], method |-> "",
             path |-> "", query |-> NoQuery, body |-> NoBody]
IdleResp == [status |-> 0, kind |-> "none"]
Loc0 ==
    [version |-> "", bundle |-> default_bundle, risk |-> "Low", action_class |-> "",
     rate |-> RateLimitRule("", 0, 0), counter_id |-> "", window_start |-> 0,
     exceeded |-> FALSE, exceeded_alone |-> FALSE, verdict |-> "Allow", reason |-> "",
     matched_rule |-> NoneStr, rate_limited |-> FALSE, decision_id |-> 0,
     eid |-> 0, escalation_id |-> None, now |-> 0, rows |-> << >>, current |-> 0,
     load_failed |-> FALSE, kv_reads |-> 0, d1_error |-> FALSE,
     bundle_found |-> FALSE]

ErrorResp(status) == [status |-> status, kind |-> "error"]

Finish(p, r) ==
    /\ pc' = [pc EXCEPT ![p] = "done"]
    /\ resp' = [resp EXCEPT ![p] = r]

(***************************************************************************)
(* fetch: gateway, then dispatch to the handler (lib.rs)                   *)
(***************************************************************************)
\* the comparison of bundle.version with the path version is left out
validate_definition_ignores_version(version, body) ==
    IF ~body.bundle.valid THEN [ok |-> FALSE, bundle |-> default_bundle]
    ELSE [ok |-> TRUE,
          bundle |-> IF body.bundle.bundle.version = ""
                     THEN [body.bundle.bundle EXCEPT !.version = version]
                     ELSE body.bundle.bundle]

\* PUT /v1/policies/definitions/:version up to its first store call:
\* Some(bundle) when the body is accepted
validate_definition(version, body) ==
    IF ~body.bundle.valid THEN [ok |-> FALSE, bundle |-> default_bundle]
    ELSE LET b == IF body.bundle.bundle.version = ""
                  THEN [body.bundle.bundle EXCEPT !.version = version]
                  ELSE body.bundle.bundle
         IN IF b.version # version THEN [ok |-> FALSE, bundle |-> default_bundle]
            ELSE [ok |-> TRUE, bundle |-> b]

Dispatch(p, r, h) ==
    CASE h.handler = "health" ->
              /\ Finish(p, [status |-> 200, kind |-> "health"])
              /\ UNCHANGED loc
         [] h.handler = "check" ->
              /\ pc' = [pc EXCEPT ![p] = "ep_load_version"]
              /\ UNCHANGED <<loc, resp>>
         [] h.handler = "decisions" ->
              /\ pc' = [pc EXCEPT ![p] = "list_decisions"]
              /\ UNCHANGED <<loc, resp>>
         [] h.handler = "put_definition" ->
              LET v == validate_definition(h.param, r.body)
              IN IF v.ok
                 THEN /\ pc' = [pc EXCEPT ![p] = "pd_r2_put"]
                      /\ loc' = [loc EXCEPT ![p] = [Loc0 EXCEPT !.version = h.param,
                                                                !.bundle = v.bundle]]
                      /\ UNCHANGED resp
                 ELSE /\ Finish(p, ErrorResp(500))
                      /\ UNCHANGED loc
         [] h.handler = "activate" ->
              IF kv_bound
              THEN /\ pc' = [pc EXCEPT ![p] = "av_kv_put"]
                   /\ loc' = [loc EXCEPT ![p] = [Loc0 EXCEPT !.version = h.param]]
                   /\ UNCHANGED resp
              ELSE /\ Finish(p, ErrorResp(500))
                   /\ UNCHANGED loc
         [] h.handler = "active" ->
              IF kv_bound
              THEN /\ pc' = [pc EXCEPT ![p] = "ap_kv_get"]
                   /\ UNCHANGED <<loc, resp>>
              ELSE /\ Finish(p, [status |-> 200, kind |-> "active",
                                 version |-> Some(default_bundle.version),
                                 source |-> "builtin"])
                   /\ UNCHANGED loc
         [] OTHER ->
              /\ Finish(p, ErrorResp(404))
              /\ UNCHANGED loc

\* what fetch computes from a request before its first await: the gateway's
\* verdict and the route; it depends on the request only
Arrival(r) ==
    LET t == tenant_from_request(r)
    IN [req     |-> r,
        ctx     |-> t,
        route   |-> route(r.method, r.path),
        status  |-> IF is_public_path(r.path) THEN 200
                    ELSE IF ~t.ok THEN 401
                    ELSE IF ~authorize(t, r.method, r.path) THEN 403
                    ELSE 200]

PolicyArrivals  == {Arrival(r) : r \in PolicyRequests}
PublishArrivals == {Arrival(r) : r \in PublishRequests}
EvaluateArrivals == {Arrival(r) : r \in EvaluateRequests}
GatewayArrivals == {Arrival(r) : r \in GatewayRequests}

Fetch(p, arrivals) ==
    /\ pc[p] = "idle"
    /\ issued < MaxRequests
    /\ issued' = issued + 1
    /\ \E a \in arrivals :
         /\ req' = [req EXCEPT ![p] = a.req]
         /\ IF a.status # 200
            THEN /\ Finish(p, ErrorResp(a.status))
                 /\ UNCHANGED <<tenant_ctx, loc>>
            ELSE /\ tenant_ctx' = [tenant_ctx EXCEPT ![p] = a.ctx]
                 /\ Dispatch(p, a.req, a.route)
    /\ UNCHANGED <<storeVars, now_s, clock_ticks, next_id, histVars, fnVars, taskVars, authzVars, limiterVars, counterVars, envVars>>

\* the requests of the scenarios
PolicyFetch(p)   == Fetch(p, PolicyArrivals)
PublishFetch(p)  == Fetch(p, PublishArrivals)
EvaluateFetch(p) == Fetch(p, EvaluateArrivals)
GatewayFetch(p)  == Fetch(p, GatewayArrivals)

(***************************************************************************)
(* evaluate_policy (policy.rs) with check_and_increment_rate_limit,        *)
(* create_policy_escalation and record_policy_check_detailed (db.rs)       *)
(***************************************************************************)
counter_id_of(actor, action_class, window_start, window_seconds) ==
    actor \o "|" \o action_class \o "|" \o ToString(window_start)
          \o "|" \o ToString(window_seconds)

\* now - (now % window_seconds.max(1))
window_start_of(now, window_seconds) == now - (now % Max(window_seconds, 1))

effective_rate_for(bundle, action_class, risk) ==
    LET hits == {i \in 1..Len(bundle.rate_limits) :
                    wildcard_match(bundle.rate_limits[i].action_class, action_class)}
    IN IF hits = {} THEN default_rate_limit_for(risk)
       ELSE bundle.rate_limits[CHOOSE i \in hits : \A j \in hits : i <= j]

\* evaluate_policy from the loaded bundle to the entry of the limiter, which
\* reads the clock and builds the counter id
ep_classify(l, body, bundle, now) ==
    LET risk  == classify_risk(body.action, body.resource, body.context)
        class == classify_action_class(body.action, risk)
        rate  == effective_rate_for(bundle, class, risk)
        ws    == window_start_of(now, rate.window_seconds)
    IN [l EXCEPT !.bundle = bundle, !.risk = risk, !.action_class = class,
                 !.rate = rate, !.now = now, !.window_start = ws,
                 !.counter_id = counter_id_of(body.actor, class, ws, rate.window_seconds)]

\* max_requests compared as supplied
rate_limit_threshold_unclamped(max_requests) == max_requests
\* the limit the read-back count is compared with: max_requests.max(1)
rate_limit_threshold(max_requests) == Max(max_requests, 1)

\* rule matching runs before the limiter's answer is looked at
ep_decide_rules_first(l, body, exceeded) ==
    LET i == first_matching_rule(l.bundle.rules, body, l.risk)
    IN IF i # 0
       THEN [l EXCEPT !.exceeded = exceeded, !.rate_limited = exceeded,
                      !.matched_rule = Some(l.bundle.rules[i].id),
                      !.verdict = l.bundle.rules[i].effect,
                      !.reason = l.bundle.rules[i].reason]
       ELSE IF exceeded
       THEN [l EXCEPT !.exceeded = TRUE, !.rate_limited = TRUE, !.verdict = "Escalate",
                      !.reason = "rate limit exceeded for actor/action class"]
       ELSE IF RiskRank[l.risk] >= RiskRank["High"]
       THEN [l EXCEPT !.exceeded = FALSE, !.verdict = "Escalate",
                      !.reason = "high-risk action requires explicit policy match"]
       ELSE [l EXCEPT !.exceeded = FALSE, !.verdict = "Allow",
                      !.reason = "auto-approved low-risk operation"]

\* the no-match escalation written with risk > High
ep_decide_escalates_above_high(l, body, exceeded) ==
    IF exceeded
    THEN [l EXCEPT !.exceeded = TRUE, !.rate_limited = TRUE, !.verdict = "Escalate",
                   !.reason = "rate limit exceeded for actor/action class"]
    ELSE LET i == first_matching_rule(l.bundle.rules, body, l.risk)
         IN IF i # 0
            THEN [l EXCEPT !.exceeded = FALSE,
                           !.matched_rule = Some(l.bundle.rules[i].id),
                           !.verdict = l.bundle.rules[i].effect,
                           !.reason = l.bundle.rules[i].reason]
            ELSE IF RiskRank[l.risk] > RiskRank["High"]
            THEN [l EXCEPT !.exceeded = FALSE, !.verdict = "Escalate",
                           !.reason = "high-risk action requires explicit policy match"]
            ELSE [l EXCEPT !.exceeded = FALSE, !.verdict = "Allow",
                           !.reason = "auto-approved low-risk operation"]

\* evaluate_policy from the limiter's answer to the verdict
ep_decide(l, body, exceeded) ==
    IF exceeded
    THEN [l EXCEPT !.exceeded = TRUE, !.rate_limited = TRUE, !.verdict = "Escalate",
                   !.reason = "rate limit exceeded for actor/action class"]
    ELSE LET i == first_matching_rule(l.bundle.rules, body, l.risk)
         IN IF i # 0
            THEN [l EXCEPT !.exceeded = FALSE,
                           !.matched_rule = Some(l.bundle.rules[i].id),
                           !.verdict = l.bundle.rules[i].effect,
                           !.reason = l.bundle.rules[i].reason]
            ELSE IF RiskRank[l.risk] >= RiskRank["High"]
            THEN [l EXCEPT !.exceeded = FALSE, !.verdict = "Escalate",
                           !.reason = "high-risk action requires explicit policy match"]
            ELSE [l EXCEPT !.exceeded = FALSE, !.verdict = "Allow",
                           !.reason = "auto-approved low-risk operation"]

decision_str(verdict) ==
    CASE verdict = "Allow" -> "allow" [] verdict = "Deny" -> "deny"
      [] verdict = "Escalate" -> "escalate"

\* the Decision evaluate_policy returns, as POST /v1/policies/check sends it
PolicyCheckResponse(l, body) ==
    [status |-> 200, kind |-> "decision",
     id |-> l.decision_id, action |-> body.action,
     decision |-> decision_str(l.verdict), reason |-> l.reason,
     risk_level |-> to_ascii_lowercase(l.risk),
     policy_version |-> l.bundle.version,
     matched_rule |-> l.matched_rule,
     escalation_id |-> l.escalation_id,
     rate_limited |-> l.rate_limited]

\* load_policy_bundle: read of the active-version pointer
LoadActiveVersion(p) ==
    /\ pc[p] = "ep_load_version"
    /\ IF kv_bound
       THEN /\ loc' = [loc EXCEPT ![p].version =
                          IF ACTIVE_POLICY_VERSION_KEY \in DOMAIN kv
                          THEN kv[ACTIVE_POLICY_VERSION_KEY]
                          ELSE "builtin-2026-02-22",
                                   ![p].kv_reads = @ + 1]
            /\ pc' = [pc EXCEPT ![p] = "ep_load_bundle"]
       ELSE /\ loc' = [loc EXCEPT ![p] = ep_classify(loc[p], req[p].body, default_bundle, now_s)]
            /\ pc' = [pc EXCEPT ![p] = "rl_upsert"]
    /\ UNCHANGED <<storeVars, now_s, clock_ticks, tenant_ctx, req, resp, issued, next_id,
                   histVars, fnVars, taskVars, authzVars, limiterVars, counterVars, envVars>>

\* the bundle is read from a fixed key, not from the key the pointer names
LoadBundle_fixed_key(p) ==
    /\ pc[p] = "ep_load_bundle"
    /\ LET key    == POLICY_RULE_KEY_PREFIX \o "v1"
           found  == key \in DOMAIN kv
           bundle == IF found THEN kv[key] ELSE default_bundle
       IN loc' = [loc EXCEPT ![p] = [ep_classify(loc[p], req[p].body, bundle, now_s)
                                        EXCEPT !.kv_reads = @ + 1,
                                               !.bundle_found = found]]
    /\ pc' = [pc EXCEPT ![p] = "rl_upsert"]
    /\ UNCHANGED <<storeVars, now_s, clock_ticks, tenant_ctx, req, resp, issued, next_id,
                   histVars, fnVars, taskVars, authzVars, limiterVars, counterVars, envVars>>

\* load_policy_bundle: read of the bundle stored under the version
LoadBundle(p) ==
    /\ pc[p] = "ep_load_bundle"
    /\ LET key    == POLICY_RULE_KEY_PREFIX \o loc[p].version
           found  == key \in DOMAIN kv
           bundle == IF found THEN kv[key] ELSE default_bundle
       IN loc' = [loc EXCEPT ![p] = [ep_classify(loc[p], req[p].body, bundle, now_s)
                                        EXCEPT !.kv_reads = @ + 1,
                                               !.bundle_found = found]]
    /\ pc' = [pc EXCEPT ![p] = "rl_upsert"]
    /\ UNCHANGED <<storeVars, now_s, clock_ticks, tenant_ctx, req, resp, issued, next_id,
                   histVars, fnVars, taskVars, authzVars, limiterVars, counterVars, envVars>>

\* INSERT INTO policy_rate_limit_counters ... ON CONFLICT(id) DO UPDATE
\* the row is replaced, not incremented: INSERT OR REPLACE with count 1
counter_upsert_replaces(counters, id, actor, action_class, window_start, window_seconds, now) ==
    MapPut(counters, id,
           [id |-> id, actor |-> actor, action_class |-> action_class,
            window_start_epoch |-> window_start, window_seconds |-> window_seconds,
            count |-> 1, updated_at |-> now])

counter_upsert(counters, id, actor, action_class, window_start, window_seconds, now) ==
    IF id \in DOMAIN counters
    THEN [counters EXCEPT ![id].count = @ + 1, ![id].updated_at = now]
    ELSE MapPut(counters, id,
                [id |-> id, actor |-> actor, action_class |-> action_class,
                 window_start_epoch |-> window_start, window_seconds |-> window_seconds,
                 count |-> 1, updated_at |-> now])

\* the count as it was before the caller's own increment
counter_read_before_increment(counters, id) ==
    IF id \in DOMAIN counters THEN counters[id].count - 1 ELSE 0
\* SELECT count ... WHERE id = ?1, with unwrap_or(0)
counter_read(counters, id) == IF id \in DOMAIN counters THEN counters[id].count ELSE 0

\* check_and_increment_rate_limit: INSERT ... ON CONFLICT DO UPDATE
RateLimitUpsert(p) ==
    /\ pc[p] = "rl_upsert"
    /\ LET id == loc[p].counter_id
           own == <<tenant_ctx[p].tenant_id, id>>
       IN /\ policy_rate_limit_counters' =
                counter_upsert(policy_rate_limit_counters, id, req[p].body.actor,
                               loc[p].action_class, loc[p].window_start,
                               loc[p].rate.window_seconds, loc[p].now)
          /\ own_hits' = MapPut(own_hits, own,
                                IF own \in DOMAIN own_hits THEN own_hits[own] + 1 ELSE 1)
    /\ pc' = [pc EXCEPT ![p] = "rl_read"]
    /\ UNCHANGED <<kv_bound, kv, r2_objects, policy_decisions, policy_escalations, now_s,
                   clock_ticks, tenant_ctx, req, loc, resp, issued, next_id, issuer,
                   activators, fnVars, taskVars, authzVars, limiterVars, counterVars, envVars>>

\* check_and_increment_rate_limit: SELECT count, then evaluate_policy up to
\* its next store call
RateLimitReadBack(p) ==
    /\ pc[p] = "rl_read"
    /\ LET id       == loc[p].counter_id
           own      == <<tenant_ctx[p].tenant_id, id>>
           current  == counter_read(policy_rate_limit_counters, id)
           alone    == IF own \in DOMAIN own_hits THEN own_hits[own] ELSE 0
           limit    == rate_limit_threshold(loc[p].rate.max_requests)
           exceeded == current > limit
           l        == ep_decide(loc[p], req[p].body, exceeded)
           escalate == l.verdict = "Escalate"
           before   == IF id \in DOMAIN admits THEN admits[id]
                       ELSE [admitted |-> 0, limit |-> 0]
       IN /\ loc' = [loc EXCEPT ![p] =
                       [l EXCEPT !.current = current,
                                 !.exceeded_alone = alone > limit,
                                 !.decision_id = next_id,
                                 !.eid = IF escalate THEN next_id + 1 ELSE 0]]
          /\ admits' = IF exceeded THEN admits
                       ELSE MapPut(admits, id, [admitted |-> before.admitted + 1,
                                                limit |-> Max(before.limit, limit)])
          /\ next_id' = IF escalate THEN next_id + 2 ELSE next_id + 1
          /\ pc' = [pc EXCEPT ![p] = IF escalate THEN "ep_escalate" ELSE "ep_record"]
    /\ UNCHANGED <<storeVars, now_s, clock_ticks, tenant_ctx, req, resp, issued, histVars,
                   fnVars, taskVars, authzVars, limiterVars, counterVars, faults>>

\* the escalation id is returned but no row is inserted
CreateEscalation_without_insert(p) ==
    /\ pc[p] = "ep_escalate"
    /\ UNCHANGED policy_escalations
    /\ loc' = [loc EXCEPT ![p].escalation_id = Some(loc[p].eid)]
    /\ pc' = [pc EXCEPT ![p] = "ep_record"]
    /\ UNCHANGED <<kv_bound, kv, r2_objects, policy_decisions, policy_rate_limit_counters,
                   now_s, clock_ticks, tenant_ctx, req, resp, issued, next_id, histVars,
                   fnVars, taskVars, authzVars, limiterVars, counterVars, envVars>>

\* create_policy_escalation
CreateEscalation(p) ==
    /\ pc[p] = "ep_escalate"
    /\ policy_escalations' = Append(policy_escalations,
          [id |-> loc[p].eid, decision_id |-> loc[p].decision_id,
           action |-> req[p].body.action, actor |-> req[p].body.actor,
           resource |-> req[p].body.resource,
           risk_level |-> to_ascii_lowercase(loc[p].risk), status |-> "pending",
           context |-> IF req[p].body.context.some THEN req[p].body.context.v ELSE "{}",
           created_at |-> now_s])
    /\ loc' = [loc EXCEPT ![p].escalation_id = Some(loc[p].eid)]
    /\ pc' = [pc EXCEPT ![p] = "ep_record"]
    /\ UNCHANGED <<kv_bound, kv, r2_objects, policy_decisions, policy_rate_limit_counters,
                   now_s, clock_ticks, tenant_ctx, req, resp, issued, next_id, histVars,
                   fnVars, taskVars, authzVars, limiterVars, counterVars, envVars>>

\* record_policy_check_detailed, then the response of POST /v1/policies/check.
\* The row has no tenant column: the tenant id evaluate_policy was called
\* with is kept in issuer only.
RecordDecision(p) ==
    /\ pc[p] = "ep_record"
    /\ LET l == loc[p]
           b == req[p].body
       IN /\ policy_decisions' = Append(policy_decisions,
                [id |-> l.decision_id, run_id |-> b.run_id, action |-> b.action,
                 actor |-> b.actor, resource |-> b.resource,
                 decision |-> decision_str(l.verdict), reason |-> l.reason,
                 created_at |-> now_s,
                 context |-> [base |-> b.context,
                              risk_level |-> to_ascii_lowercase(l.risk),
                              policy_version |-> l.bundle.version,
                              matched_rule |-> l.matched_rule,
                              escalation_id |-> l.escalation_id,
                              rate_limited |-> l.rate_limited]])
          /\ issuer' = MapPut(issuer, l.decision_id, tenant_ctx[p].tenant_id)
          /\ Finish(p, PolicyCheckResponse(l, b))
    /\ UNCHANGED <<kv_bound, kv, r2_objects, policy_escalations, policy_rate_limit_counters,
                   now_s, clock_ticks, tenant_ctx, req, loc, issued, next_id, own_hits,
                   activators, fnVars, taskVars, authzVars, limiterVars, counterVars, envVars>>

(***************************************************************************)
(* Store errors: a KV read or a D1 statement of evaluate_policy returns    *)
(* Err                                                                     *)
(***************************************************************************)
MaxFaults == 1

\* the load error is returned to the caller with the ? operator
KvReadFails_propagated(p) ==
    /\ faults < MaxFaults
    /\ \/ pc[p] = "ep_load_version" /\ kv_bound
       \/ pc[p] = "ep_load_bundle" /\ (POLICY_RULE_KEY_PREFIX \o loc[p].version) \in DOMAIN kv
    /\ faults' = faults + 1
    /\ loc' = [loc EXCEPT ![p].load_failed = TRUE, ![p].kv_reads = @ + 1]
    /\ Finish(p, ErrorResp(500))
    /\ UNCHANGED <<storeVars, now_s, clock_ticks, tenant_ctx, req, issued, next_id,
                   histVars, fnVars, taskVars, authzVars, limiterVars, counterVars, admits>>

\* load_policy_bundle returns Err (a KV read error, or a stored bundle that
\* is not valid JSON); evaluate_policy takes default_bundle() instead
KvReadFails(p) ==
    /\ faults < MaxFaults
    /\ \/ pc[p] = "ep_load_version" /\ kv_bound
       \/ pc[p] = "ep_load_bundle" /\ (POLICY_RULE_KEY_PREFIX \o loc[p].version) \in DOMAIN kv
    /\ faults' = faults + 1
    /\ loc' = [loc EXCEPT ![p] = [ep_classify(loc[p], req[p].body, default_bundle, now_s)
                                     EXCEPT !.load_failed = TRUE, !.kv_reads = @ + 1]]
    /\ pc' = [pc EXCEPT ![p] = "rl_upsert"]
    /\ UNCHANGED <<storeVars, now_s, clock_ticks, tenant_ctx, req, resp, issued, next_id,
                   histVars, fnVars, taskVars, authzVars, limiterVars, counterVars, admits>>

\* an error of the decision insert is dropped and the Decision is returned
D1Fails_insert_error_swallowed(p) ==
    /\ faults < MaxFaults
    /\ pc[p] \in {"rl_upsert", "rl_read", "ep_escalate", "ep_record"}
    /\ faults' = faults + 1
    /\ loc' = [loc EXCEPT ![p].d1_error = TRUE]
    /\ IF pc[p] = "ep_record"
       THEN Finish(p, PolicyCheckResponse(loc[p], req[p].body))
       ELSE Finish(p, ErrorResp(500))
    /\ UNCHANGED <<storeVars, now_s, clock_ticks, tenant_ctx, req, issued, next_id,
                   histVars, fnVars, taskVars, authzVars, limiterVars, counterVars, admits>>

\* a D1 statement of evaluate_policy returns Err: the ? operator returns it
\* from evaluate_policy and from the route handler
D1Fails(p) ==
    /\ faults < MaxFaults
    /\ pc[p] \in {"rl_upsert", "rl_read", "ep_escalate", "ep_record"}
    /\ faults' = faults + 1
    /\ loc' = [loc EXCEPT ![p].d1_error = TRUE]
    /\ Finish(p, ErrorResp(500))
    /\ UNCHANGED <<storeVars, now_s, clock_ticks, tenant_ctx, req, issued, next_id,
                   histVars, fnVars, taskVars, authzVars, limiterVars, counterVars, admits>>

(***************************************************************************)
(* GET /v1/policies/decisions: list_policy_decisions (db.rs)               *)
(***************************************************************************)
DigitChars == "0123456789"

\* str::parse::<u32> of a decimal literal: Some(n), or None for Err
RECURSIVE parse_digits(_, _)
parse_digits(s, acc) ==
    IF Len(s) = 0 THEN Some(acc)
    ELSE LET d == find(DigitChars, SubSeq(s, 1, 1))
         IN IF d = 0 THEN None
            ELSE parse_digits(SubSeq(s, 2, Len(s)), acc * 10 + (d - 1))

parse_u32(s) == IF Len(s) = 0 THEN None ELSE parse_digits(s, 0)

query_limit(q) ==
    LET parsed == IF q.limit.some THEN parse_u32(q.limit.v) ELSE None
    IN Min(IF parsed.some THEN parsed.v ELSE 50, 200)

\* WHERE action = ? AND actor = ? AND decision = ?, each only when supplied
decision_row_selected(row, act, actor, decision) ==
    /\ act.some => row.action = act.v
    /\ actor.some => row.actor = actor.v
    /\ decision.some => row.decision = decision.v

\* the results SELECT ... ORDER BY created_at DESC LIMIT ? may return; rows
\* with the same created_at come in any order
list_policy_decisions(rows, act, actor, decision, limit) ==
    LET sel == SelectSeq(rows, LAMBDA row : decision_row_selected(row, act, actor, decision))
        n   == Len(sel)
        ord == {f \in [1..n -> 1..n] :
                   /\ \A i, j \in 1..n : i # j => f[i] # f[j]
                   /\ \A i, j \in 1..n : i < j => sel[f[i]].created_at >= sel[f[j]].created_at}
    IN {[i \in 1..Min(limit, n) |-> sel[f[i]]] : f \in ord}

ListDecisions(p) ==
    /\ pc[p] = "list_decisions"
    /\ \E rows \in list_policy_decisions(policy_decisions, req[p].query.action,
                                         req[p].query.actor, req[p].query.decision,
                                         query_limit(req[p].query)) :
         /\ loc' = [loc EXCEPT ![p].rows = rows]
         /\ Finish(p, [status |-> 200, kind |-> "decisions"])
    /\ UNCHANGED <<storeVars, now_s, clock_ticks, tenant_ctx, req, issued, next_id,
                   histVars, fnVars, taskVars, authzVars, limiterVars, counterVars, envVars>>

(***************************************************************************)
(* put_policy_definition, activate_policy_version, active_policy_version   *)
(* (policy.rs)                                                             *)
(***************************************************************************)
DefinitionResp(version, activated) ==
    [status |-> 200, kind |-> "definition", version |-> Some(version),
     stored |-> TRUE, activated |-> activated]

\* bucket.put(policies/{version}.json)
PutDefinitionR2(p) ==
    /\ pc[p] = "pd_r2_put"
    /\ r2_objects' = MapPut(r2_objects,
                            POLICY_R2_KEY_PREFIX \o loc[p].version \o ".json",
                            loc[p].bundle)
    /\ IF kv_bound
       THEN /\ pc' = [pc EXCEPT ![p] = "pd_kv_rules"]
            /\ UNCHANGED resp
       ELSE Finish(p, DefinitionResp(loc[p].version, FALSE))
    /\ UNCHANGED <<kv_bound, kv, policy_decisions, policy_escalations,
                   policy_rate_limit_counters, now_s, clock_ticks, tenant_ctx, req, loc,
                   issued, next_id, histVars, fnVars, taskVars, authzVars, limiterVars, counterVars, envVars>>

\* kv.put(policy:rules:{version})
PutDefinitionKvRules(p) ==
    /\ pc[p] = "pd_kv_rules"
    /\ kv' = MapPut(kv, POLICY_RULE_KEY_PREFIX \o loc[p].version, loc[p].bundle)
    /\ IF req[p].body.activate
       THEN /\ pc' = [pc EXCEPT ![p] = "pd_kv_active"]
            /\ UNCHANGED resp
       ELSE Finish(p, DefinitionResp(loc[p].version, FALSE))
    /\ UNCHANGED <<kv_bound, r2_objects, policy_decisions, policy_escalations,
                   policy_rate_limit_counters, now_s, clock_ticks, tenant_ctx, req, loc,
                   issued, next_id, histVars, fnVars, taskVars, authzVars, limiterVars, counterVars, envVars>>

\* kv.put(policy:active_version) of put_policy_definition with activate = true
PutDefinitionKvActive(p) ==
    /\ pc[p] = "pd_kv_active"
    /\ kv' = MapPut(kv, ACTIVE_POLICY_VERSION_KEY, loc[p].version)
    /\ activators' = activators \cup {tenant_ctx[p].role}
    /\ Finish(p, DefinitionResp(loc[p].version, TRUE))
    /\ UNCHANGED <<kv_bound, r2_objects, policy_decisions, policy_escalations,
                   policy_rate_limit_counters, now_s, clock_ticks, tenant_ctx, req, loc,
                   issued, next_id, own_hits, issuer, fnVars, taskVars, authzVars, limiterVars, counterVars, envVars>>

\* kv.put(policy:active_version) of activate_policy_version
ActivateVersion(p) ==
    /\ pc[p] = "av_kv_put"
    /\ kv' = MapPut(kv, ACTIVE_POLICY_VERSION_KEY, loc[p].version)
    /\ activators' = activators \cup {tenant_ctx[p].role}
    /\ Finish(p, [status |-> 200, kind |-> "activation",
                  version |-> Some(loc[p].version), active |-> TRUE])
    /\ UNCHANGED <<kv_bound, r2_objects, policy_decisions, policy_escalations,
                   policy_rate_limit_counters, now_s, clock_ticks, tenant_ctx, req, loc,
                   issued, next_id, own_hits, issuer, fnVars, taskVars, authzVars, limiterVars, counterVars, envVars>>

\* kv.get(policy:active_version) of active_policy_version
ActiveVersion(p) ==
    /\ pc[p] = "ap_kv_get"
    /\ Finish(p, [status |-> 200, kind |-> "active",
                  version |-> IF ACTIVE_POLICY_VERSION_KEY \in DOMAIN kv
                              THEN Some(kv[ACTIVE_POLICY_VERSION_KEY]) ELSE NoneStr,
                  source |-> "kv"])
    /\ UNCHANGED <<storeVars, now_s, clock_ticks, tenant_ctx, req, loc, issued, next_id,
                   histVars, fnVars, taskVars, authzVars, limiterVars, counterVars, envVars>>

\* the response has been sent; the slot is free for the next request
Return(p) ==
    /\ pc[p] = "done"
    /\ pc' = [pc EXCEPT ![p] = "idle"]
    /\ req' = [req EXCEPT ![p] = IdleReq]
    /\ tenant_ctx' = [tenant_ctx EXCEPT ![p] = CtxErr]
    /\ loc' = [loc EXCEPT ![p] = Loc0]
    /\ resp' = [resp EXCEPT ![p] = IdleResp]
    /\ UNCHANGED <<storeVars, now_s, clock_ticks, issued, next_id, histVars, fnVars, taskVars, authzVars,
                   limiterVars, counterVars, envVars>>

PolicyTick ==
    /\ clock_ticks < MaxClockTicks
    /\ clock_ticks' = clock_ticks + 1
    /\ \E d \in ClockSteps : now_s' = now_s + d
    /\ UNCHANGED <<storeVars, procVars, issued, next_id, histVars, fnVars, taskVars, authzVars, limiterVars, counterVars, envVars>>

\* no pure function is being called
NoFn     == [fn |-> "none"]
NoReturn == [returned |-> FALSE]

NoCall ==
    [some |-> FALSE, actor |-> "", action_class |-> "", window_seconds |-> 0,
     max_requests |-> 0, now |-> 0, window_start |-> 0, counter_id |-> "",
     exceeded |-> FALSE]

\* ---- the task queue (db.rs): its rows and call slots ----
Agents    == {"a1", "a2"}
TaskIds   == {"t1"}
TaskTypes == {"build", "test"}
Slots     == {"s1", "s2"}
MaxRetries   == 1
MaxFailCalls == 2

\* a row of mcp_tasks; retry_count, result, agent_id, lease_expires_at and
\* completed_at take the column defaults (0 and NULL) on insert
TaskRow(id, task_type, priority, max_retries, created_at) ==
    [id |-> id, task_type |-> task_type, priority |-> priority, status |-> "pending",
     agent_id |-> NoneStr, lease_expires_at |-> None, retry_count |-> 0,
     max_retries |-> max_retries, result |-> NoneStr, completed_at |-> None,
     created_at |-> created_at]

NoRow == [found |-> FALSE, row |-> TaskRow("", "", 0, 0, 0)]

\* a call slot with no call in it
NoTaskCall ==
    [op |-> "none", pc |-> "idle", agent_id |-> "", task_id |-> "", now |-> 0, lease |-> 0,
     new_status |-> "", new_retry |-> 0, error |-> "", changed |-> FALSE,
     ret_task |-> NoRow]

\* no task in the queue, no task call in progress
TasksIdle ==
    /\ mcp_tasks = EmptyMap
    /\ task_calls = [c \in Slots |-> NoTaskCall]
    /\ task_hist = EmptyMap

PolicyStart ==
    /\ r2_objects = EmptyMap
    /\ policy_decisions = << >>
    /\ policy_escalations = << >>
    /\ policy_rate_limit_counters = EmptyMap
    /\ now_s = 0
    /\ clock_ticks = 0
    /\ pc = [p \in Procs |-> "idle"]
    /\ tenant_ctx = [p \in Procs |-> CtxErr]
    /\ req = [p \in Procs |-> IdleReq]
    /\ loc = [p \in Procs |-> Loc0]
    /\ resp = [p \in Procs |-> IdleResp]
    /\ issued = 0
    /\ next_id = 1
    /\ own_hits = EmptyMap
    /\ issuer = EmptyMap
    /\ activators = {}
    /\ counter_call = NoCall
    /\ key_checks = EmptyMap
    /\ admits = EmptyMap
    /\ faults = 0
    /\ TasksIdle

\* the deployment starts with no bundle published, or with BundleTight
\* published and active as version v1
KvPublished ==
    MapPut(MapPut(EmptyMap, POLICY_RULE_KEY_PREFIX \o "v1", BundleTight),
           ACTIVE_POLICY_VERSION_KEY, "v1")

FnIdle == fn_call = NoFn /\ fn_result = NoReturn

PolicyInit ==
    /\ kv_bound \in BOOLEAN
    /\ kv \in IF kv_bound THEN {EmptyMap, KvPublished} ELSE {EmptyMap}
    /\ PolicyStart
    /\ FnIdle
PolicyIdle == kv_bound = TRUE /\ kv = EmptyMap /\ PolicyStart /\ FnIdle

(***************************************************************************)
(* check_and_increment_rate_limit (db.rs) as one call: each call runs to   *)
(* its return before the next one starts                                   *)
(***************************************************************************)
MaxCalls        == 4
MaxLimit        == 2
MaxCounterTicks == 3
CounterSteps    == {30}
CounterClasses  == {"read", "deploy"}
CounterWindows  == {0, 60}
CounterLimits   == (0 - 1)..MaxLimit

check_and_increment_rate_limit(counters, actor, action_class, window_seconds, max_requests, now) ==
    LET window_start == window_start_of(now, window_seconds)
        counter_id   == counter_id_of(actor, action_class, window_start, window_seconds)
        upserted     == counter_upsert(counters, counter_id, actor, action_class,
                                       window_start, window_seconds, now)
        current      == counter_read(upserted, counter_id)
    IN [counters     |-> upserted,
        window_start |-> window_start,
        counter_id   |-> counter_id,
        exceeded     |-> current > rate_limit_threshold(max_requests)]

CounterCheck ==
    /\ issued < MaxCalls
    /\ issued' = issued + 1
    /\ \E class \in CounterClasses, w \in CounterWindows, m \in CounterLimits :
         LET r == check_and_increment_rate_limit(policy_rate_limit_counters, "agent-1",
                                                 class, w, m, now_s)
         IN /\ policy_rate_limit_counters' = r.counters
            /\ counter_call' = [some |-> TRUE, actor |-> "agent-1", action_class |-> class,
                                window_seconds |-> w, max_requests |-> m, now |-> now_s,
                                window_start |-> r.window_start,
                                counter_id |-> r.counter_id, exceeded |-> r.exceeded]
            /\ key_checks' = MapPut(key_checks, r.counter_id,
                                    IF r.counter_id \in DOMAIN key_checks
                                    THEN key_checks[r.counter_id] + 1 ELSE 1)
    /\ UNCHANGED <<kv_bound, kv, r2_objects, policy_decisions, policy_escalations, now_s,
                   clock_ticks, procVars, next_id, histVars, fnVars, taskVars, authzVars, limiterVars, envVars>>

CounterTick ==
    /\ clock_ticks < MaxCounterTicks
    /\ clock_ticks' = clock_ticks + 1
    /\ \E d \in CounterSteps : now_s' = now_s + d
    /\ UNCHANGED <<storeVars, procVars, issued, next_id, histVars, counterVars, fnVars, taskVars, authzVars,
                   limiterVars, envVars>>

(***************************************************************************)
(* evaluate_policy as a function of the request, the loaded bundle and the *)
(* limiter's answer: classification, rule matching, verdict (policy.rs)    *)
(***************************************************************************)
RuleActions ==
    {"read", "READ-logs", "deploy", "Deploy-api", "rotate-credential", "CREDENTIAL-deploy",
     "read-credential", "read-deploy", "write", "wipe-deploy", "noop"}
RuleResources == {NoneStr, Some("prod-cluster"), Some("PROD"), Some("staging")}
RuleBodies ==
    {[kind |-> "check", action |-> a, actor |-> "agent-1", resource |-> r,
      context |-> NoneStr, run_id |-> NoneStr] : a \in RuleActions, r \in RuleResources}
RuleBundles == {default_bundle, BundleTight, [BundleUnversioned EXCEPT !.version = "v2"]}

\* the slot evaluate_policy is computed in
RuleSlot == "p1"

RulesInit ==
    /\ kv_bound = FALSE
    /\ kv = EmptyMap
    /\ r2_objects = EmptyMap
    /\ policy_decisions = << >>
    /\ policy_escalations = << >>
    /\ policy_rate_limit_counters = EmptyMap
    /\ now_s = 0
    /\ clock_ticks = 0
    /\ pc = [p \in Procs |-> "idle"]
    /\ tenant_ctx = [p \in Procs |-> CtxErr]
    /\ \E b \in RuleBodies :
         req = [p \in Procs |-> IF p = RuleSlot THEN [IdleReq EXCEPT !.body = b]
                                ELSE IdleReq]
    /\ \E bundle \in RuleBundles :
         loc = [p \in Procs |-> IF p = RuleSlot THEN [Loc0 EXCEPT !.bundle = bundle]
                                ELSE Loc0]
    /\ resp = [p \in Procs |-> IdleResp]
    /\ issued = 0
    /\ next_id = 1
    /\ own_hits = EmptyMap
    /\ issuer = EmptyMap
    /\ activators = {}
    /\ counter_call = NoCall
    /\ key_checks = EmptyMap
    /\ admits = EmptyMap
    /\ faults = 0
    /\ TasksIdle
    /\ fn_call = NoFn
    /\ fn_result = NoReturn

\* evaluate_policy with the loaded bundle, for either answer of the limiter
Decide ==
    /\ pc[RuleSlot] = "idle"
    /\ \E exceeded \in BOOLEAN :
         LET body == req[RuleSlot].body
             l    == ep_decide(ep_classify(loc[RuleSlot], body, loc[RuleSlot].bundle, now_s),
                               body, exceeded)
         IN /\ loc' = [loc EXCEPT ![RuleSlot] = l]
            /\ resp' = [resp EXCEPT ![RuleSlot] = PolicyCheckResponse(l, body)]
    /\ pc' = [pc EXCEPT ![RuleSlot] = "decided"]
    /\ UNCHANGED <<storeVars, now_s, clock_ticks, tenant_ctx, req, issued, next_id,
                   histVars, fnVars, taskVars, authzVars, limiterVars, counterVars, envVars>>

(***************************************************************************)
(* Tenant-scoped storage keys (tenant_security.rs)                         *)
(***************************************************************************)
partition_key(tenant_id, resource_type, id) ==
    "tenants/" \o tenant_id \o "/" \o resource_type \o "/" \o id

(***************************************************************************)
(* Tenant CRUD rules: the specificity evaluator (db.rs)                    *)
(***************************************************************************)
ends_with(s, suffix) ==
    Len(s) >= Len(suffix) /\ SubSeq(s, Len(s) - Len(suffix) + 1, Len(s)) = suffix

\* str::strip_suffix: Some(rest) when s ends with suffix
strip_suffix(s, suffix) ==
    IF ends_with(s, suffix) THEN Some(SubSeq(s, 1, Len(s) - Len(suffix))) ELSE NoneStr

\* str::trim_end_matches for a one-character pattern
RECURSIVE trim_end_matches(_, _)
trim_end_matches(s, c) ==
    IF ends_with(s, c) THEN trim_end_matches(SubSeq(s, 1, Len(s) - 1), c) ELSE s

pattern_matches(pattern, value) ==
    IF pattern = "*" THEN TRUE
    ELSE IF strip_suffix(pattern, ":").some
    THEN LET prefix == strip_suffix(pattern, ":").v
         IN starts_with(value, prefix) \/ value = trim_end_matches(prefix, ":")
    ELSE IF strip_suffix(pattern, ":*").some
    THEN LET prefix == strip_suffix(pattern, ":*").v
         IN starts_with(value, prefix \o ":") \/ value = prefix
    ELSE pattern = value

specificity_field(pattern) ==
    IF pattern # "*" THEN (IF contains(pattern, "*") THEN 1 ELSE 2) ELSE 0

specificity_score(act, res, actor) ==
    specificity_field(act) + specificity_field(res) + specificity_field(actor)

\* risk by naming convention; the texts of the model are ASCII
classify_action_risk(act) ==
    LET a == to_ascii_lowercase(act)
    IN IF \E w \in {"read", "get", "list", "view", "describe"} : starts_with(a, w)
       THEN "read"
       ELSE IF \E w \in {"delete", "drop", "destroy", "purge"} : starts_with(a, w)
       THEN "destructive"
       ELSE IF starts_with(a, "deploy:prod") \/ contains(a, "irreversible")
               \/ starts_with(a, "revoke")
       THEN "irreversible"
       ELSE "write"

\* ORDER BY priority DESC, created_at ASC
rule_row_before(x, y) ==
    x.priority > y.priority \/ (x.priority = y.priority /\ x.created_at <= y.created_at)

RECURSIVE order_rule_rows(_)
order_rule_rows(rows) ==
    IF rows = {} THEN << >>
    ELSE LET first == CHOOSE x \in rows : \A y \in rows : rule_row_before(x, y)
         IN <<first>> \o order_rule_rows(rows \ {first})

\* SELECT * FROM policy_rules WHERE enabled = 1 ORDER BY priority DESC, created_at ASC
select_enabled_rules(policy_rules) ==
    order_rule_rows({x \in policy_rules : x.enabled})

rule_row_matches(rule, act, res, actor) ==
    /\ pattern_matches(rule.action_pattern, act)
    /\ pattern_matches(rule.resource_pattern, res)
    /\ pattern_matches(rule.actor_pattern, actor)

\* the loop of evaluate_policy over rules[i..]: best is the index of the
\* best rule so far (0 for none) and score its score
RECURSIVE best_rule(_, _, _, _, _, _, _)
best_rule(rules, i, act, res, actor, best, score) ==
    IF i > Len(rules) THEN best
    ELSE IF ~rule_row_matches(rules[i], act, res, actor)
    THEN best_rule(rules, i + 1, act, res, actor, best, score)
    ELSE LET sc == specificity_score(rules[i].action_pattern, rules[i].resource_pattern,
                                     rules[i].actor_pattern)
         IN IF best = 0 \/ sc > score
            THEN best_rule(rules, i + 1, act, res, actor, i, sc)
            ELSE best_rule(rules, i + 1, act, res, actor, best, score)

\* db::evaluate_policy: (verdict, reason, risk_level, matched_rule_id)
evaluate_policy(policy_rules, body) ==
    LET rules == select_enabled_rules(policy_rules)
        res   == IF body.resource.some THEN body.resource.v ELSE ""
        best  == best_rule(rules, 1, body.action, res, body.actor, 0, 0)
    IN IF best # 0
       THEN [verdict |-> rules[best].verdict, reason |-> rules[best].reason,
             risk_level |-> rules[best].risk_level, matched_rule |-> Some(rules[best].id)]
       ELSE LET risk == classify_action_risk(body.action)
            IN [verdict |-> IF risk \in {"destructive", "irreversible"} THEN "escalate"
                            ELSE "allow",
                reason |-> CASE risk = "read"
                                  -> "no matching rule; read actions default-allowed"
                             [] risk = "write"
                                  -> "no matching rule; write actions default-allowed"
                             [] OTHER
                                  -> "no matching rule; high-risk action requires explicit policy",
                risk_level |-> risk, matched_rule |-> NoneStr]

(***************************************************************************)
(* Calls of the pure functions, each on arguments drawn at the start       *)
(***************************************************************************)
Returns(v) ==
    /\ ~fn_result.returned
    /\ fn_result' = [returned |-> TRUE, v |-> v]
    /\ UNCHANGED <<fn_call, storeVars, now_s, clock_ticks, procVars, issued, next_id,
                   histVars, counterVars, envVars, taskVars, authzVars, limiterVars>>

\* ---- tenant::authorize ----
AuthorizeCalls ==
    {[fn |-> "authorize", ctx |-> [ok |-> TRUE, tenant_id |-> "t1", role |-> r],
      method |-> m, path |-> p]
        : r \in TenantRole,
          m \in {"GET", "HEAD", "OPTIONS", "POST", "PUT", "DELETE", "PATCH"},
          p \in {"/v1/tenants/provision", "/v1/tenants/", "/v1/tenants",
                 "/v1/policies/activate/v1", "/v1/policies/activate", "/v1/policies/active",
                 "/v1/policies/rules", "/v1/policies/rules/r1", "/v1/policies/check",
                 "/v1/policies/definitions/v1", "/v1/runs"}}

Authorize ==
    /\ fn_call.fn = "authorize"
    /\ Returns(authorize(fn_call.ctx, fn_call.method, fn_call.path))

\* ---- tenant_security::partition_key, for the objects of two tenants ----
KeyObjects == [tenant_id : {"a", "b", "a/b"}, resource_type : {"run", "b/run"}, id : {"x", "run/x"}]
PartitionKeyCalls == {[fn |-> "partition_key", a |-> a, b |-> b] : a \in KeyObjects, b \in KeyObjects}

PartitionKey ==
    /\ fn_call.fn = "partition_key"
    /\ Returns([a |-> partition_key(fn_call.a.tenant_id, fn_call.a.resource_type, fn_call.a.id),
                b |-> partition_key(fn_call.b.tenant_id, fn_call.b.resource_type, fn_call.b.id)])

\* ---- policy::classify_risk ----
ClassifyRiskCalls ==
    {[fn |-> "classify_risk", action |-> a, resource |-> r, context |-> c]
        : a \in {"read", "WIPE-logs", "deploy", "read-secret-then-destroy", "update-index",
                 "noop", "pro", "list-status"},
          r \in {NoneStr, Some("d"), Some("PROD-db"), Some("root-key"), Some("notes")},
          c \in {NoneStr, Some("{\"mode\":\"Irreversible\"}"), Some("{\"op\":\"get\"}")}}

ClassifyRisk ==
    /\ fn_call.fn = "classify_risk"
    /\ Returns(classify_risk(fn_call.action, fn_call.resource, fn_call.context))

\* ---- policy::first_matching_rule ----
MatchRules ==
    << PolicyRule("allow-agent-reads", "Allow", "read*", "*", "agent-*", NoneStr, "agents may read"),
       PolicyRule("deny-prod", "Deny", "*", "*prod*", "*", Some("High"), "production is frozen"),
       PolicyRule("escalate-risky", "Escalate", "*", "*", "*", Some("Medium"), "needs review"),
       PolicyRule("deny-db-read", "Deny", "read", "db", "agent-1", NoneStr, "db is private") >>
FirstMatchingRuleCalls ==
    {[fn |-> "first_matching_rule", rules |-> l, risk |-> k,
      body |-> [kind |-> "check", action |-> a, actor |-> who, resource |-> r,
                context |-> NoneStr, run_id |-> NoneStr]]
        : l \in {MatchRules, <<MatchRules[4], MatchRules[3], MatchRules[2], MatchRules[1]>>,
                 <<MatchRules[2]>>, << >>},
          k \in RiskLevel,
          a \in {"read", "READ-logs", "deploy"}, who \in {"agent-1", "Service-1"},
          r \in {NoneStr, Some("PROD"), Some("db")}}

FirstMatchingRule ==
    /\ fn_call.fn = "first_matching_rule"
    /\ Returns(first_matching_rule(fn_call.rules, fn_call.body, fn_call.risk))

\* ---- policy::wildcard_match ----
WildcardMatchCalls ==
    {[fn |-> "wildcard_match", pattern |-> p, value |-> v]
        : p \in {"*", "admin-*", "agent-*", "*s", "*-1", "a*c", "Deploy", "", "**", "*prod*"},
          v \in {"", "admin-1", "superadmin-1", "agent-1", "service-1", "s", "sx", "abc",
                 "xabcx", "DEPLOY", "deploys", "agent-10", "Admin-Ops", "prod"}}

WildcardMatch ==
    /\ fn_call.fn = "wildcard_match"
    /\ Returns(wildcard_match(fn_call.pattern, fn_call.value))

\* ---- db::pattern_matches ----
PatternMatchesCalls ==
    {[fn |-> "pattern_matches", pattern |-> p, value |-> v]
        : p \in {"*", "deploy", "deploy:", "deploy:*", "deploy::", ":", ""},
          v \in {"", "deploy", "deploy:", "deploy:staging", "deployment", "delete:staging",
                 "Deploy", "deploy::x", "anything:at:all"}}

PatternMatches ==
    /\ fn_call.fn = "pattern_matches"
    /\ Returns(pattern_matches(fn_call.pattern, fn_call.value))

\* ---- db::evaluate_policy on a table of tenant rules ----
MaxRules == 2
\* fields of a record; entries of an array
MaxFields == 2
MaxItems == 2
PolicyRuleRow(id, act, res, actor, verdict, priority, enabled, created_at) ==
    [id |-> id, action_pattern |-> act, resource_pattern |-> res, actor_pattern |-> actor,
     verdict |-> verdict, reason |-> id, risk_level |-> "write", priority |-> priority,
     enabled |-> enabled, created_at |-> created_at]
RuleRows ==
    {PolicyRuleRow("any", "*", "*", "*", "allow", 0, TRUE, 1),
     PolicyRuleRow("deploy-star", "deploy:*", "*", "*", "escalate", 0, TRUE, 2),
     PolicyRuleRow("deploy-colon", "deploy:", "*", "*", "deny", 0, TRUE, 3),
     PolicyRuleRow("deploy-exact", "deploy", "*", "*", "deny", 0, TRUE, 4),
     PolicyRuleRow("deploy-prod", "deploy", "prod", "*", "escalate", 5, TRUE, 5),
     PolicyRuleRow("deploy-prod-agent", "deploy", "prod", "agent-1", "allow", 0, TRUE, 6),
     PolicyRuleRow("deploy-exact-first", "deploy", "*", "*", "allow", 9, TRUE, 7),
     PolicyRuleRow("off", "deploy", "prod", "agent-1", "deny", 9, FALSE, 8)}
EvaluatePolicyCalls ==
    {[fn |-> "evaluate_policy", policy_rules |-> t,
      body |-> [kind |-> "check", action |-> a, actor |-> "agent-1", resource |-> r,
                context |-> NoneStr, run_id |-> NoneStr]]
        : t \in {t \in SUBSET RuleRows : Cardinality(t) <= MaxRules},
          a \in {"deploy", "deploy:staging", "read"}, r \in {NoneStr, Some("prod")}}

EvaluatePolicy ==
    /\ fn_call.fn = "evaluate_policy"
    /\ Returns(evaluate_policy(fn_call.policy_rules, fn_call.body))

FunctionsInit ==
    /\ kv_bound = TRUE
    /\ kv = EmptyMap
    /\ PolicyStart
    /\ \/ fn_call \in AuthorizeCalls
       \/ fn_call \in PartitionKeyCalls
       \/ fn_call \in ClassifyRiskCalls
       \/ fn_call \in FirstMatchingRuleCalls
       \/ fn_call \in WildcardMatchCalls
       \/ fn_call \in PatternMatchesCalls
       \/ fn_call \in EvaluatePolicyCalls
    /\ fn_result = NoReturn

(***************************************************************************)
(* tenant_security.rs: secret classification, redaction, federation        *)
(***************************************************************************)
\* serde_json::Value: a tagged value; an object is a function from its keys
JString(s) == [t |-> "string", s |-> s]
JNumber(n) == [t |-> "number", n |-> n]
JArray(a)  == [t |-> "array", a |-> a]
JObject(o) == [t |-> "object", o |-> o]
\* the call did not return: a slice off a char boundary panics
Panicked   == [t |-> "panic"]

\* char::len_utf8 on the characters the inputs are written with
len_utf8(c) ==
    IF c = "é" THEN 2 ELSE IF c = "日" THEN 3 ELSE 1

\* str::len: the length in bytes
RECURSIVE str_len(_)
str_len(s) ==
    IF Len(s) = 0 THEN 0 ELSE len_utf8(SubSeq(s, 1, 1)) + str_len(SubSeq(s, 2, Len(s)))

\* &s[..n]: the characters that fill the first n bytes; a panic when byte n
\* is past the end or inside a character
slice_to(s, n) ==
    LET cuts == {k \in 0..Len(s) : str_len(SubSeq(s, 1, k)) = n}
    IN IF cuts = {} THEN Panicked ELSE JString(SubSeq(s, 1, CHOOSE k \in cuts : TRUE))

\* enum SecretClassification, in its derived order
SecretClassification == <<"Public", "Internal", "Confidential", "Restricted">>
SecretRank(c) == CHOOSE i \in 1..4 : SecretClassification[i] = c

RESTRICTED_FIELDS ==
    {"password", "secret", "token", "api_key", "apikey", "private_key",
     "credential", "credentials", "ssn", "credit_card"}
CONFIDENTIAL_FIELDS ==
    {"email", "phone", "address", "ip_address", "session_id", "cookie"}
INTERNAL_FIELDS ==
    {"tenant_id", "user_id", "account_id", "internal_id", "trace_id"}

classify_field(field_name) ==
    LET lower == to_ascii_lowercase(field_name)
    IN IF has_any(lower, RESTRICTED_FIELDS) THEN "Restricted"
       ELSE IF has_any(lower, CONFIDENTIAL_FIELDS) THEN "Confidential"
       ELSE IF has_any(lower, INTERNAL_FIELDS) THEN "Internal"
       ELSE "Public"

\* a validator that looks at Restricted fields only
validate_no_plaintext_secrets_restricted_only(record) ==
    LET violations ==
            IF record.t = "object"
            THEN {key \in DOMAIN record.o :
                    /\ classify_field(key) = "Restricted"
                    /\ record.o[key].t = "string"
                    /\ ~starts_with(record.o[key].s, "enc:")
                    /\ ~starts_with(record.o[key].s, "***")
                    /\ record.o[key].s # ""}
            ELSE {}
    IN [ok |-> violations = {}, violations |-> violations]

\* Ok(()) is ok with no violation, Err(violations) carries the field names
\* (the order of the Vec is the iteration order of the map)
validate_no_plaintext_secrets(record) ==
    LET violations ==
            IF record.t = "object"
            THEN {key \in DOMAIN record.o :
                    /\ SecretRank(classify_field(key)) >= SecretRank("Confidential")
                    /\ record.o[key].t = "string"
                    /\ ~starts_with(record.o[key].s, "enc:")
                    /\ ~starts_with(record.o[key].s, "***")
                    /\ record.o[key].s # ""}
            ELSE {}
    IN [ok |-> violations = {}, violations |-> violations]

\* a redaction that keeps a short Confidential string as it is
redact_sensitive_fields_keeps_short(record) ==
    LET redact(key, value) ==
            CASE classify_field(key) = "Restricted" -> JString("***REDACTED***")
              [] classify_field(key) = "Confidential" ->
                    IF value.t = "string"
                    THEN IF str_len(value.s) > 4
                         THEN LET head == slice_to(value.s, 2)
                              IN IF head = Panicked THEN Panicked
                                 ELSE JString(head.s \o "***")
                         ELSE value
                    ELSE JString("***")
              [] OTHER -> value
    IN IF record.t = "object"
       THEN LET redacted == [key \in DOMAIN record.o |-> redact(key, record.o[key])]
            IN IF \E key \in DOMAIN redacted : redacted[key] = Panicked
               THEN Panicked
               ELSE JObject(redacted)
       ELSE record

redact_sensitive_fields(record) ==
    LET redact(key, value) ==
            CASE classify_field(key) = "Restricted" -> JString("***REDACTED***")
              [] classify_field(key) = "Confidential" ->
                    IF value.t = "string"
                    THEN IF str_len(value.s) > 4
                         THEN LET head == slice_to(value.s, 2)
                              IN IF head = Panicked THEN Panicked
                                 ELSE JString(head.s \o "***")
                         ELSE JString("***")
                    ELSE JString("***")
              [] OTHER -> value
    IN IF record.t = "object"
       THEN LET redacted == [key \in DOMAIN record.o |-> redact(key, record.o[key])]
            IN IF \E key \in DOMAIN redacted : redacted[key] = Panicked
               THEN Panicked
               ELSE JObject(redacted)
       ELSE record

\* FederationConfig::default(): derived, so false and two empty sets
FederationConfig_default ==
    [opt_in |-> FALSE, allowed_tenants |-> {}, sharing_scope |-> {}]

\* a federation test that forgets the opt-in
can_federate_ignores_opt_in(fed_config, target_tenant, data_type) ==
    /\ target_tenant \in fed_config.allowed_tenants
    /\ data_type \in fed_config.sharing_scope

can_federate(fed_config, target_tenant, data_type) ==
    /\ fed_config.opt_in
    /\ target_tenant \in fed_config.allowed_tenants
    /\ data_type \in fed_config.sharing_scope

RECURSIVE anonymize_for_federation(_)
\* an anonymization of the top-level object only
anonymize_for_federation_top_level(data) ==
    IF data.t = "object"
    THEN JObject([key \in {k \in DOMAIN data.o :
                            SecretRank(classify_field(k)) < SecretRank("Confidential")}
                    |-> data.o[key]])
    ELSE data

anonymize_for_federation(data) ==
    CASE data.t = "object" ->
            JObject([key \in {k \in DOMAIN data.o :
                                SecretRank(classify_field(k)) < SecretRank("Confidential")}
                        |-> anonymize_for_federation(data.o[key])])
      [] data.t = "array" ->
            JArray([i \in 1..Len(data.a) |-> anonymize_for_federation(data.a[i])])
      [] OTHER -> data

\* ---- calls on records, federation configs and nested values ----
FieldNames == {"Password", "email", "user_id", "name", "email_token"}
FieldValues ==
    {JString(""), JString("enc:x"), JString("***"), JString("abcd"),
     JString("hunter2"), JString("**secret"), JString("ééé"), JString("日日"), JNumber(7)}

Records ==
    {JObject(o) : o \in UNION {[ks -> FieldValues] :
                                 ks \in {s \in SUBSET FieldNames : Cardinality(s) <= MaxFields}}}
        \cup {JString("hunter2"), JArray(<<JString("hunter2")>>)}

ValidateCalls == {[fn |-> "validate_no_plaintext_secrets", record |-> r] : r \in Records}

ValidateNoPlaintextSecrets ==
    /\ fn_call.fn = "validate_no_plaintext_secrets"
    /\ Returns(validate_no_plaintext_secrets(fn_call.record))

RedactCalls == {[fn |-> "redact_sensitive_fields", record |-> r] : r \in Records}

RedactSensitiveFields ==
    /\ fn_call.fn = "redact_sensitive_fields"
    /\ Returns(redact_sensitive_fields(fn_call.record))

CanFederateCalls ==
    {[fn |-> "can_federate", fed_config |-> c, target_tenant |-> t, data_type |-> d]
        : c \in [opt_in : BOOLEAN, allowed_tenants : SUBSET {"t1", "t2"},
                 sharing_scope : SUBSET {"runs", "metrics"}],
          t \in {"t1", "t2", "t3"}, d \in {"runs", "metrics", "logs"}}

CanFederate ==
    /\ fn_call.fn = "can_federate"
    /\ Returns(can_federate(fn_call.fed_config, fn_call.target_tenant, fn_call.data_type))

\* nested values: leaves, containers of leaves, containers of those, and
\* objects with a Restricted and an Internal key around a container
Containers(vs) ==
    {JObject(o) : o \in UNION {[ks -> vs] : ks \in SUBSET {"email", "name"}}}
        \cup {JArray(a) : a \in UNION {[1..n -> vs] : n \in 0..MaxItems}}
Leaves == {JString("x"), JNumber(7)}
Nested ==
    Leaves \cup Containers(Leaves \cup Containers(Leaves))
           \cup {JObject([Password |-> v, user_id |-> v]) : v \in Containers(Leaves)}

AnonymizeCalls == {[fn |-> "anonymize_for_federation", data |-> d] : d \in Nested}

AnonymizeForFederation ==
    /\ fn_call.fn = "anonymize_for_federation"
    /\ Returns(anonymize_for_federation(fn_call.data))

SecretsInit ==
    /\ kv_bound = TRUE
    /\ kv = EmptyMap
    /\ PolicyStart
    /\ \/ fn_call \in ValidateCalls
       \/ fn_call \in RedactCalls
       \/ fn_call \in CanFederateCalls
       \/ fn_call \in AnonymizeCalls
    /\ fn_result = NoReturn

(***************************************************************************)
(* db.rs: the task queue (create, claim, heartbeat, complete, fail)        *)
(***************************************************************************)
\* the history of a task: claims that took it, fail_task calls made on it,
\* and whether it strayed from failing once each time it was claimed (it was
\* completed, or a fail_task call found it not running or came on top of the
\* one fail_task call of the claim)
TaskHist(id) ==
    IF id \in DOMAIN task_hist THEN task_hist[id]
    ELSE [claimed |-> 0, fail_calls |-> 0, strayed |-> FALSE]

\* the guard of the match arm: row.retry_count < row.max_retries
retry_eligible(row) == row.retry_count < row.max_retries

\* a slot takes a new call when the one before has returned
TaskSlotFree(c) == task_calls[c].pc \in {"idle", "returned"}

TaskCall(op, agent_id, task_id) ==
    [NoTaskCall EXCEPT !.op = op, !.agent_id = agent_id, !.task_id = task_id,
                       !.now = now_s, !.lease = now_s + 300]

TaskUnchanged ==
    UNCHANGED <<storeVars, now_s, clock_ticks, procVars, issued, next_id, histVars,
                counterVars, envVars, fnVars, authzVars, limiterVars>>

\* create_task: one INSERT, status 'pending', max_retries.unwrap_or(3)
CreateTask(c) ==
    /\ TaskSlotFree(c)
    /\ \E id \in TaskIds \ DOMAIN mcp_tasks, tt \in TaskTypes, priority \in {0},
          mr \in {None} \cup {Some(n) : n \in 0..MaxRetries} :
         /\ mcp_tasks' = MapPut(mcp_tasks, id,
                                TaskRow(id, tt, priority, IF mr.some THEN mr.v ELSE 3, now_s))
         /\ task_calls' = [task_calls EXCEPT ![c] = NoTaskCall]
    /\ UNCHANGED task_hist
    /\ TaskUnchanged

\* claim_next_task: SELECT id ... WHERE status = 'pending' [AND task_type IN
\* (capabilities)] ORDER BY priority DESC, created_at ASC LIMIT 1; Ok(None)
\* when there is no row
ClaimSelect(c) ==
    /\ TaskSlotFree(c)
    /\ \E agent \in Agents, capabilities \in {<< >>, <<"build">>} :
         LET call    == TaskCall("claim_next_task", agent, "")
             pending == {id \in DOMAIN mcp_tasks :
                            /\ mcp_tasks[id].status = "pending"
                            /\ \/ Len(capabilities) = 0
                               \/ \E i \in 1..Len(capabilities) :
                                     mcp_tasks[id].task_type = capabilities[i]}
             first   == {id \in pending :
                            \A o \in pending :
                               \/ mcp_tasks[id].priority > mcp_tasks[o].priority
                               \/ /\ mcp_tasks[id].priority = mcp_tasks[o].priority
                                  /\ mcp_tasks[id].created_at <= mcp_tasks[o].created_at}
         IN IF first = {}
            THEN task_calls' = [task_calls EXCEPT ![c] = NoTaskCall]
            ELSE \E id \in first :
                    task_calls' = [task_calls EXCEPT ![c] =
                                     [call EXCEPT !.pc = "claim_update", !.task_id = id]]
    /\ UNCHANGED <<mcp_tasks, task_hist>>
    /\ TaskUnchanged

\* claim_next_task: UPDATE ... SET status = 'running', agent_id, lease
\* WHERE id = ?3 AND status = 'pending'; the number of changed rows is not
\* looked at. (The UPDATE of agents.last_heartbeat that follows touches no
\* task row and is part of this step.)
ClaimUpdate(c) ==
    /\ task_calls[c].pc = "claim_update"
    /\ LET call == task_calls[c]
           hit  == call.task_id \in DOMAIN mcp_tasks
                      /\ mcp_tasks[call.task_id].status = "pending"
       IN /\ mcp_tasks' = IF hit
                          THEN [mcp_tasks EXCEPT ![call.task_id].status = "running",
                                                 ![call.task_id].agent_id = Some(call.agent_id),
                                                 ![call.task_id].lease_expires_at = Some(call.lease)]
                          ELSE mcp_tasks
          /\ task_calls' = [task_calls EXCEPT ![c].pc = "claim_fetch", ![c].changed = hit]
          /\ task_hist' = IF hit
                          THEN MapPut(task_hist, call.task_id,
                                      [TaskHist(call.task_id) EXCEPT !.claimed = @ + 1])
                          ELSE task_hist
    /\ TaskUnchanged

\* claim_next_task: SELECT * ... WHERE id = ?1 AND agent_id = ?2
ClaimFetch(c) ==
    /\ task_calls[c].pc = "claim_fetch"
    /\ LET call == task_calls[c]
           hit  == call.task_id \in DOMAIN mcp_tasks
                      /\ mcp_tasks[call.task_id].agent_id = Some(call.agent_id)
       IN task_calls' = [task_calls EXCEPT ![c] =
                            IF hit
                            THEN [NoTaskCall EXCEPT
                                     !.op = call.op, !.pc = "returned",
                                     !.agent_id = call.agent_id, !.changed = call.changed,
                                     !.ret_task = [found |-> TRUE, row |-> mcp_tasks[call.task_id]]]
                            ELSE NoTaskCall]
    /\ UNCHANGED <<mcp_tasks, task_hist>>
    /\ TaskUnchanged

\* heartbeat_task: UPDATE ... SET lease_expires_at WHERE id AND agent_id AND
\* status = 'running'; returns whether a row changed
HeartbeatTask(c) ==
    /\ TaskSlotFree(c)
    /\ \E id \in TaskIds, agent \in Agents :
         LET call == TaskCall("heartbeat_task", agent, id)
             hit  == /\ id \in DOMAIN mcp_tasks
                     /\ mcp_tasks[id].agent_id = Some(agent)
                     /\ mcp_tasks[id].status = "running"
         IN /\ mcp_tasks' = IF hit
                            THEN [mcp_tasks EXCEPT ![id].lease_expires_at = Some(call.lease)]
                            ELSE mcp_tasks
            /\ task_calls' = [task_calls EXCEPT ![c] = NoTaskCall]
    /\ UNCHANGED task_hist
    /\ TaskUnchanged

\* complete_task: UPDATE ... SET status = 'completed', result, completed_at
\* WHERE id AND status = 'running'; returns whether a row changed
CompleteTask(c) ==
    /\ TaskSlotFree(c)
    /\ \E id \in TaskIds, result_val \in {NoneStr, Some("{}")} :
         LET call == TaskCall("complete_task", "", id)
             hit  == id \in DOMAIN mcp_tasks /\ mcp_tasks[id].status = "running"
         IN /\ mcp_tasks' = IF hit
                            THEN [mcp_tasks EXCEPT ![id].status = "completed",
                                                   ![id].result = result_val,
                                                   ![id].completed_at = Some(call.now)]
                            ELSE mcp_tasks
            /\ task_hist' = IF hit
                            THEN MapPut(task_hist, id, [TaskHist(id) EXCEPT !.strayed = TRUE])
                            ELSE task_hist
            /\ task_calls' = [task_calls EXCEPT ![c] = NoTaskCall]
    /\ TaskUnchanged

\* fail_task: SELECT retry_count, max_retries ... WHERE id AND status =
\* 'running', then the match that picks the new status and retry count
FailSelect(c) ==
    /\ TaskSlotFree(c)
    /\ \E id \in TaskIds :
         LET call  == TaskCall("fail_task", "", id)
             found == id \in DOMAIN mcp_tasks /\ mcp_tasks[id].status = "running"
             retry == found /\ retry_eligible(mcp_tasks[id])
         IN /\ TaskHist(id).fail_calls < MaxFailCalls
            /\ task_hist' = MapPut(task_hist, id,
                                   [TaskHist(id) EXCEPT
                                       !.fail_calls = @ + 1,
                                       !.strayed = @ \/ ~found
                                                     \/ TaskHist(id).fail_calls >= TaskHist(id).claimed])
            /\ task_calls' = [task_calls EXCEPT ![c] =
                                [call EXCEPT !.pc = "fail_update",
                                             !.error = "{\"error\":\"boom\"}",
                                             !.changed = found,
                                             !.new_status = IF retry THEN "pending" ELSE "failed",
                                             !.new_retry = IF retry
                                                           THEN mcp_tasks[id].retry_count + 1
                                                           ELSE 0]]
    /\ UNCHANGED mcp_tasks
    /\ TaskUnchanged

\* fail_task: UPDATE ... SET status = ?1, retry_count, result, agent_id,
\* lease_expires_at = NULL, completed_at WHERE id = ?5 (no test of status);
\* returns the new status
FailUpdate(c) ==
    /\ task_calls[c].pc = "fail_update"
    /\ LET call == task_calls[c]
           id   == call.task_id
           hit  == id \in DOMAIN mcp_tasks
       IN /\ mcp_tasks' =
               IF hit
               THEN [mcp_tasks EXCEPT
                        ![id].status = call.new_status,
                        ![id].retry_count = IF call.new_status = "pending" THEN call.new_retry
                                            ELSE @,
                        ![id].result = Some(call.error),
                        ![id].agent_id = IF call.new_status = "pending" THEN NoneStr ELSE @,
                        ![id].lease_expires_at = None,
                        ![id].completed_at = IF call.new_status = "failed" THEN Some(call.now)
                                             ELSE None]
               ELSE mcp_tasks
          /\ task_calls' = [task_calls EXCEPT ![c] = NoTaskCall]
    /\ UNCHANGED task_hist
    /\ TaskUnchanged

\* the clock the task calls read moves on
TaskTick ==
    /\ PolicyTick
    /\ UNCHANGED taskVars

(***************************************************************************)
(* Specifications                                                          *)
(***************************************************************************)
InitAuthz == AuthzInit /\ LimiterIdle /\ PolicyIdle
NextAuthz == EvaluateAuthz \/ NewAuthzCall
SpecAuthz == InitAuthz /\ [][NextAuthz]_vars

InitLimiter == AuthzIdle /\ LimiterInit /\ PolicyIdle
NextLimiter == Tick \/ CheckRateLimit \/ RecordSuccess \/ RecordFailure
SpecLimiter == InitLimiter /\ [][NextLimiter]_vars

InitPolicy == AuthzIdle /\ LimiterIdle /\ PolicyInit
NextPolicy ==
    \/ PolicyTick
    \/ \E p \in Procs :
         \/ PolicyFetch(p)
         \/ LoadActiveVersion(p)
         \/ LoadBundle(p)
         \/ RateLimitUpsert(p)
         \/ RateLimitReadBack(p)
         \/ CreateEscalation(p)
         \/ RecordDecision(p)
         \/ ListDecisions(p)
         \/ Return(p)
SpecPolicy == InitPolicy /\ [][NextPolicy]_vars

NextPublish ==
    \E p \in Procs :
         \/ PublishFetch(p)
         \/ LoadActiveVersion(p)
         \/ LoadBundle(p)
         \/ RateLimitUpsert(p)
         \/ RateLimitReadBack(p)
         \/ CreateEscalation(p)
         \/ RecordDecision(p)
         \/ PutDefinitionR2(p)
         \/ PutDefinitionKvRules(p)
         \/ PutDefinitionKvActive(p)
         \/ ActivateVersion(p)
         \/ ActiveVersion(p)
         \/ Return(p)
SpecPublish == InitPolicy /\ [][NextPublish]_vars

NextEvaluate ==
    \/ PolicyTick
    \/ \E p \in Procs :
         \/ EvaluateFetch(p)
         \/ LoadActiveVersion(p)
         \/ LoadBundle(p)
         \/ RateLimitUpsert(p)
         \/ RateLimitReadBack(p)
         \/ CreateEscalation(p)
         \/ RecordDecision(p)
         \/ KvReadFails(p)
         \/ D1Fails(p)
         \/ Return(p)
SpecEvaluate == InitPolicy /\ [][NextEvaluate]_vars

InitGateway == AuthzIdle /\ LimiterIdle /\ PolicyIdle
NextGateway ==
    \E p \in Procs :
         \/ GatewayFetch(p)
         \/ LoadActiveVersion(p)
         \/ LoadBundle(p)
         \/ RateLimitUpsert(p)
         \/ RateLimitReadBack(p)
         \/ CreateEscalation(p)
         \/ RecordDecision(p)
         \/ ListDecisions(p)
         \/ PutDefinitionR2(p)
         \/ PutDefinitionKvRules(p)
         \/ PutDefinitionKvActive(p)
         \/ ActivateVersion(p)
         \/ ActiveVersion(p)
         \/ Return(p)
SpecGateway == InitGateway /\ [][NextGateway]_vars

InitRules == AuthzIdle /\ LimiterIdle /\ RulesInit
NextRules == Decide
SpecRules == InitRules /\ [][NextRules]_vars

InitCounter == AuthzIdle /\ LimiterIdle /\ PolicyIdle
NextCounter == CounterCheck \/ CounterTick
SpecCounter == InitCounter /\ [][NextCounter]_vars

InitFunctions == AuthzIdle /\ LimiterIdle /\ FunctionsInit
NextFunctions ==
    \/ Authorize
    \/ PartitionKey
    \/ ClassifyRisk
    \/ FirstMatchingRule
    \/ WildcardMatch
    \/ PatternMatches
    \/ EvaluatePolicy
SpecFunctions == InitFunctions /\ [][NextFunctions]_vars

InitSecrets == AuthzIdle /\ LimiterIdle /\ SecretsInit
NextSecrets ==
    \/ ValidateNoPlaintextSecrets
    \/ RedactSensitiveFields
    \/ CanFederate
    \/ AnonymizeForFederation
SpecSecrets == InitSecrets /\ [][NextSecrets]_vars

InitTasks == AuthzIdle /\ LimiterIdle /\ PolicyIdle
NextTasks ==
    \/ TaskTick
    \/ \E c \in Slots :
         \/ CreateTask(c)
         \/ ClaimSelect(c)
         \/ ClaimUpdate(c)
         \/ ClaimFetch(c)
         \/ HeartbeatTask(c)
         \/ CompleteTask(c)
         \/ FailSelect(c)
         \/ FailUpdate(c)
SpecTasks == InitTasks /\ [][NextTasks]_vars

(***************************************************************************)
(* Claims                                                                  *)
(***************************************************************************)

\* C1: whenever the token's tenant differs from the resource's tenant,
\* evaluate_authz returns CrossTenantAccess (never Ok, never
\* PermissionDenied), whatever the role and the scoped permissions are.
C1_CrossTenantAlwaysBlocked ==
    (authz_result # NoResult /\ claims.tenant_id # resource.tenant_id)
        => /\ authz_result.kind = "CrossTenantAccess"
           /\ authz_result.requesting_tenant = claims.tenant_id
           /\ authz_result.resource_tenant = resource.tenant_id

\* C1 witness: a cross-tenant call by a token that lacks the requested
\* permission has been evaluated (a permission check would have said
\* PermissionDenied).
C1_Witness ==
    /\ authz_result.kind = "CrossTenantAccess"
    /\ claims.tenant_id # resource.tenant_id
    /\ claims.role = "Reader"
    /\ claims.scoped_permissions = Some({"Read"})
    /\ action = "Admin"

(***************************************************************************)
(* Circuit breaker and sliding window (SpecLimiter)                        *)
(***************************************************************************)
LastIsCheck == last.op = "check"
EffectiveLimit == config.requests_per_minute + config.burst_limit

\* hits of a window that are at most 60 s older than now
InWindow(hits, now) == SelectSeq(hits, LAMBDA ts : ts >= now - WINDOW_MS)

\* the admitted history as it was before the last operation
AdmittedBefore ==
    IF LastIsCheck /\ last.result.kind = "Ok"
    THEN SubSeq(admitted, 1, Len(admitted) - 1)
    ELSE admitted

C6_OpenCircuitFailsFastUnchanged ==
    (/\ LastIsCheck
     /\ last.pre.circuit_open_until.some
     /\ last.now < last.pre.circuit_open_until.v)
        => /\ last.result = CircuitOpen(LimiterTenant, last.pre.circuit_open_until.v)
           /\ state = last.pre
           /\ admitted = AdmittedBefore

\* C6 witness: a check one millisecond before the deadline, made after time
\* has passed and a further failure was recorded during the cooldown.
C6_Witness ==
    /\ LastIsCheck
    /\ last.pre.circuit_open_until.some
    /\ last.now + 1 = last.pre.circuit_open_until.v
    /\ last.pre.consecutive_failures > 5
    /\ last.result.kind = "CircuitOpen"

\* C7: the first check at or after the deadline clears the deadline, resets
\* the failure counter to 0 whatever was recorded during the cooldown, and
\* is decided as a normal request: Ok exactly when the 60 s window holds
\* fewer hits than the effective limit, Exceeded otherwise.
C7_AutoCloseAfterCooldown ==
    (/\ LastIsCheck
     /\ last.pre.circuit_open_until.some
     /\ last.now >= last.pre.circuit_open_until.v)
        => /\ state.circuit_open_until = None
           /\ state.consecutive_failures = 0
           /\ last.result.kind \in {"Ok", "Exceeded"}
           /\ last.result.kind = "Ok"
                <=> Len(InWindow(last.pre.window_hits, last.now)) < EffectiveLimit

\* C7 witness: the call made exactly at the deadline succeeded although
\* failures were recorded during the cooldown.
C7_Witness ==
    /\ LastIsCheck
    /\ last.pre.circuit_open_until.some
    /\ last.now = last.pre.circuit_open_until.v
    /\ last.pre.consecutive_failures > 5
    /\ last.result.kind = "Ok"

\* C8: record_success sets the failure counter to 0 and changes nothing
\* else; a check newly opens the circuit only when at least 5 failures were
\* recorded since the last record_success or auto-close; the circuit is
\* never open in a run that never had 5 consecutive failures.
C8_SuccessResetsAndOpenNeedsFive ==
    /\ last.op = "success"
         => /\ state.consecutive_failures = 0
            /\ state = [last.pre EXCEPT !.consecutive_failures = 0]
    /\ (/\ LastIsCheck
        /\ state.circuit_open_until.some
        /\ state.circuit_open_until # last.pre.circuit_open_until)
         => last.pre_run >= 5
    /\ state.circuit_open_until.some => tripped

\* C8 witness: record_success was called with four failures on the counter
\* and hits in the window, after the breaker had tripped once.
C8_Witness ==
    /\ last.op = "success"
    /\ last.pre.consecutive_failures = 4
    /\ Len(last.pre.window_hits) > 0
    /\ tripped

\* C9: with the circuit closed and fewer than 5 consecutive failures a check
\* returns Ok and records the hit exactly when fewer than rpm + burst of
\* the previously admitted hits are at most 60 s old; otherwise it returns
\* Exceeded and records nothing. The window never holds more than
\* rpm + burst hits.
C9_SlidingWindowLimit ==
    /\ Len(state.window_hits) <= EffectiveLimit
    /\ (/\ LastIsCheck
        /\ ~last.pre.circuit_open_until.some
        /\ last.pre.consecutive_failures < 5)
         => LET recent == InWindow(AdmittedBefore, last.now)
            IN /\ last.result.kind = "Ok" <=> Len(recent) < EffectiveLimit
               /\ last.result.kind = "Ok"
                    => /\ state.window_hits = Append(recent, last.now)
                       /\ admitted = Append(AdmittedBefore, last.now)
               /\ last.result.kind # "Ok"
                    => /\ last.result = Exceeded(LimiterTenant, config.requests_per_minute)
                       /\ state.window_hits = recent
                       /\ admitted = AdmittedBefore
               /\ Len(AdmittedBefore) < EffectiveLimit => last.result.kind = "Ok"

\* C9 witness: after the limit was used up, a call is admitted again because
\* the old hits left the window.
C9_Witness ==
    /\ LastIsCheck
    /\ ~last.pre.circuit_open_until.some
    /\ last.pre.consecutive_failures < 5
    /\ last.result.kind = "Ok"
    /\ Len(last.pre.window_hits) = EffectiveLimit
    /\ Len(admitted) > EffectiveLimit

(***************************************************************************)
(* Policy activation, tenant isolation of the stores (SpecPublish,         *)
(* SpecPolicy) and the durable counter (SpecCounter)                       *)
(***************************************************************************)
\* C2: the active-version pointer (policy:active_version) is written only by
\* requests whose tenant role is Admin: no request of a Viewer or Builder
\* that passes authorize() reaches a write of the pointer, whether through
\* POST /v1/policies/activate/:version or through
\* PUT /v1/policies/definitions/:version with activate = true.
C2_OnlyAdminWritesActiveVersion == activators \subseteq {"Admin"}

\* a policy check in slot p has returned its decision
CheckFinished(p) == pc[p] = "done" /\ resp[p].kind = "decision"

\* C3: rate-limit counters are isolated per tenant: the exceeded outcome of
\* a finished policy check is the outcome the tenant's own checks on that
\* counter key give, whatever checks other tenants issued with the same
\* actor, action class and window.
C3_CounterIsolatedPerTenant ==
    \A p \in Procs : CheckFinished(p) => loc[p].exceeded = loc[p].exceeded_alone

\* a listing of the decision history in slot p has returned
ListingFinished(p) == pc[p] = "done" /\ resp[p].kind = "decisions"

\* C4: decision history is isolated per tenant: every row a finished listing
\* returned was recorded for a check issued by the listing tenant.
C4_DecisionsIsolatedPerTenant ==
    \A p \in Procs :
        ListingFinished(p) =>
            \A i \in 1..Len(loc[p].rows) :
                issuer[loc[p].rows[i].id] = tenant_ctx[p].tenant_id

\* the position of the last call among the calls on its counter id
CallIndex == key_checks[counter_call.counter_id]

\* C10 as stated: called one after another on the same key with
\* max_requests = M, the k-th check of the window reports exceeded if and
\* only if k > M, for every M the caller supplies.
C10_ExceededIffOverMaxRequests ==
    counter_call.some => (counter_call.exceeded <=> CallIndex > counter_call.max_requests)

\* C10 amended: the k-th check of the window reports exceeded if and only if
\* k > max(M, 1); the stored count of the key is k, so the first check of a
\* new window starts from count 1; the key is
\* actor|action_class|window_start|window_seconds with window_start = now -
\* (now mod max(window_seconds, 1)), and no burst term is added.
C10_ExceededIffOverClampedMax ==
    counter_call.some =>
        /\ counter_call.exceeded <=> CallIndex > Max(counter_call.max_requests, 1)
        /\ policy_rate_limit_counters[counter_call.counter_id].count = CallIndex
        /\ counter_call.window_start =
              counter_call.now - (counter_call.now % Max(counter_call.window_seconds, 1))
        /\ \A id \in DOMAIN policy_rate_limit_counters :
              policy_rate_limit_counters[id].count = key_checks[id]

\* C10 witness: the second check of a later window with max_requests = 0 is
\* the first one reported exceeded, while the key of the earlier window
\* keeps its own count.
C10_Witness ==
    /\ counter_call.some
    /\ counter_call.max_requests = 0
    /\ counter_call.window_seconds = 60
    /\ counter_call.window_start > 0
    /\ CallIndex = 2
    /\ counter_call.exceeded
    /\ \E id \in DOMAIN policy_rate_limit_counters :
          /\ policy_rate_limit_counters[id].window_start_epoch = 0
          /\ policy_rate_limit_counters[id].action_class = counter_call.action_class
          /\ policy_rate_limit_counters[id].window_seconds = 60


(***************************************************************************)
(* Concurrent policy checks on one counter key (SpecPolicy)                *)
(***************************************************************************)
\* two different slots hold finished checks that used the same counter key
\* and both read back the same count, which is past the limit of each
RacedPastLimit(p, q) ==
    /\ p # q
    /\ CheckFinished(p) /\ CheckFinished(q)
    /\ loc[p].counter_id = loc[q].counter_id
    /\ loc[p].current = loc[q].current
    /\ loc[p].current > loc[p].rate.max_requests
    /\ loc[q].current > loc[q].rate.max_requests

Decided == pc[RuleSlot] = "decided"
DecidedBody == req[RuleSlot].body
DecidedLoc == loc[RuleSlot]
DecidedResp == resp[RuleSlot]

\* rule number i of the evaluated bundle matches the request
RuleApplies(i) ==
    rule_matches(DecidedLoc.bundle.rules[i],
                 to_ascii_lowercase(DecidedBody.action),
                 to_ascii_lowercase(IF DecidedBody.resource.some
                                    THEN DecidedBody.resource.v ELSE ""),
                 to_ascii_lowercase(DecidedBody.actor),
                 classify_risk(DecidedBody.action, DecidedBody.resource,
                               DecidedBody.context))
RuleIndexes == 1..Len(DecidedLoc.bundle.rules)

\* C12: when the limiter reports exceeded, evaluate_policy yields decision
\* escalate with rate_limited = true, matched_rule = None and the rate-limit
\* reason, whatever Allow, Deny or Escalate rule of the bundle matches the
\* request.
C12_RateLimitedForcesEscalate ==
    (Decided /\ DecidedLoc.exceeded)
        => /\ DecidedResp.decision = "escalate"
           /\ DecidedResp.rate_limited
           /\ DecidedResp.matched_rule = NoneStr
           /\ DecidedResp.reason = "rate limit exceeded for actor/action class"

\* C12 witness: a rate-limited request that the first rule of the built-in
\* bundle would have denied.
C12_Witness ==
    /\ Decided /\ DecidedLoc.exceeded
    /\ DecidedLoc.bundle = default_bundle
    /\ RuleApplies(1)
    /\ DecidedLoc.bundle.rules[1].effect = "Deny"
    /\ DecidedResp.decision = "escalate"

\* C13: when the request is not rate-limited, verdict, reason and
\* matched_rule are those of the first rule that matches; when no rule
\* matches, matched_rule is None and the verdict is escalate for High and
\* Critical risk and allow for Low and Medium risk.
C13_FirstMatchOrRiskDefault ==
    (Decided /\ ~DecidedLoc.exceeded)
        => /\ ~DecidedResp.rate_limited
           /\ \A i \in RuleIndexes :
                 (RuleApplies(i) /\ \A j \in 1..(i - 1) : ~RuleApplies(j))
                    => /\ DecidedResp.decision =
                            decision_str(DecidedLoc.bundle.rules[i].effect)
                       /\ DecidedResp.reason = DecidedLoc.bundle.rules[i].reason
                       /\ DecidedResp.matched_rule = Some(DecidedLoc.bundle.rules[i].id)
           /\ (\A i \in RuleIndexes : ~RuleApplies(i))
                 => /\ DecidedResp.matched_rule = NoneStr
                    /\ DecidedResp.risk_level \in {"high", "critical"}
                          => DecidedResp.decision = "escalate"
                    /\ DecidedResp.risk_level \in {"low", "medium"}
                          => DecidedResp.decision = "allow"

\* C13 witness: a High-risk request that no rule of the built-in bundle
\* matches (a deploy outside production) is escalated.
C13_Witness ==
    /\ Decided /\ ~DecidedLoc.exceeded
    /\ DecidedLoc.bundle = default_bundle
    /\ \A i \in RuleIndexes : ~RuleApplies(i)
    /\ DecidedResp.risk_level = "high"
    /\ DecidedResp.decision = "escalate"

\* the built-in bundle was evaluated and the limiter did not report exceeded
DecidedByDefault == Decided /\ ~DecidedLoc.exceeded /\ DecidedLoc.bundle = default_bundle
ResourceText(b) == IF b.resource.some THEN b.resource.v ELSE ""

\* C20 as stated, containment read letter for letter: under the built-in
\* bundle and not rate-limited, an action containing "credential" is denied;
\* an action containing "deploy" with a resource containing "prod" and an
\* action not containing "credential" is escalated; an action containing
\* "read" that matches neither of those two rules is allowed.
C20_DefaultBundleVerdicts ==
    DecidedByDefault
        => /\ contains(DecidedBody.action, "credential")
                => DecidedResp.decision = "deny"
           /\ (/\ contains(DecidedBody.action, "deploy")
               /\ contains(ResourceText(DecidedBody), "prod")
               /\ ~contains(DecidedBody.action, "credential"))
                => DecidedResp.decision = "escalate"
           /\ (contains(DecidedBody.action, "read") /\ ~RuleApplies(1) /\ ~RuleApplies(2))
                => DecidedResp.decision = "allow"

LowerAction == to_ascii_lowercase(DecidedBody.action)
LowerResource == to_ascii_lowercase(ResourceText(DecidedBody))

\* C20 amended: the same three verdicts with containment taken ignoring
\* ASCII case, as the rules match: an action that contains "credential" in
\* any letter case is denied, also when it contains "deploy" and the
\* resource contains "prod".
C20_DefaultBundleVerdictsIgnoringCase ==
    DecidedByDefault
        => /\ contains(LowerAction, "credential")
                => /\ DecidedResp.decision = "deny"
                   /\ DecidedResp.matched_rule = Some("deny-credential-exfiltration")
           /\ (/\ contains(LowerAction, "deploy")
               /\ contains(LowerResource, "prod")
               /\ ~contains(LowerAction, "credential"))
                => /\ DecidedResp.decision = "escalate"
                   /\ DecidedResp.matched_rule = Some("escalate-prod-deploy")
           /\ (/\ contains(LowerAction, "read")
               /\ ~contains(LowerAction, "credential")
               /\ ~(contains(LowerAction, "deploy") /\ contains(LowerResource, "prod")))
                => /\ DecidedResp.decision = "allow"
                   /\ DecidedResp.matched_rule = Some("allow-read")

\* C20 witness: an upper-case credential action that is also a production
\* deploy is denied by the first rule.
C20_Witness ==
    /\ DecidedByDefault
    /\ contains(DecidedBody.action, "deploy")
    /\ ~contains(DecidedBody.action, "credential")
    /\ contains(LowerAction, "credential")
    /\ contains(LowerResource, "prod")
    /\ DecidedResp.decision = "deny"


(***************************************************************************)
(* Escalations, the decision record and bundle load errors (SpecEvaluate)  *)
(***************************************************************************)
EscalationsOf(decision_id) ==
    {i \in 1..Len(policy_escalations) : policy_escalations[i].decision_id = decision_id}
DecisionRowsOf(decision_id) ==
    {i \in 1..Len(policy_decisions) : policy_decisions[i].id = decision_id}

\* C14: for every check that returned a Decision, escalation_id is present
\* exactly when decision = escalate; then exactly one escalation row carries
\* the returned decision id, with that escalation id and status pending; for
\* allow and deny no escalation row carries the decision id.
C14_EscalationIffEscalate ==
    \A p \in Procs :
        CheckFinished(p) =>
            LET d    == resp[p]
                rows == EscalationsOf(d.id)
            IN /\ d.escalation_id.some <=> d.decision = "escalate"
               /\ d.decision = "escalate"
                    => /\ Cardinality(rows) = 1
                       /\ \A i \in rows :
                             /\ policy_escalations[i].id = d.escalation_id.v
                             /\ policy_escalations[i].status = "pending"
               /\ d.decision \in {"allow", "deny"} => rows = {}

\* C14 witness: a denied check and an escalated check have both returned,
\* with one escalation row in the table.
C14_Witness ==
    \E p, q \in Procs :
        /\ CheckFinished(p) /\ resp[p].decision = "escalate"
        /\ CheckFinished(q) /\ resp[q].decision = "deny"
        /\ Len(policy_escalations) = 1

\* a check in slot p ended with an error response
CheckFailed(p) == pc[p] = "done" /\ resp[p].kind = "error" /\ req[p].body.kind = "check"

\* C15: a check returns a Decision only after exactly one decision row with
\* the same id, verdict, reason, risk level, policy version, matched rule,
\* escalation id and rate_limited flag was inserted; a check whose store call
\* failed returns an error and has no decision row; within a check the
\* counter is incremented before the verdict and the ids exist, the
\* escalation row is inserted before the decision row, and the decision row
\* is inserted last.
C15_RecordedBeforeAnswered ==
    \A p \in Procs :
        /\ CheckFinished(p) =>
              /\ Cardinality(DecisionRowsOf(resp[p].id)) = 1
              /\ \A i \in DecisionRowsOf(resp[p].id) :
                    LET row == policy_decisions[i]
                    IN /\ row.decision = resp[p].decision
                       /\ row.reason = resp[p].reason
                       /\ row.context.risk_level = resp[p].risk_level
                       /\ row.context.policy_version = resp[p].policy_version
                       /\ row.context.matched_rule = resp[p].matched_rule
                       /\ row.context.escalation_id = resp[p].escalation_id
                       /\ row.context.rate_limited = resp[p].rate_limited
        /\ CheckFailed(p) =>
              /\ loc[p].d1_error
              /\ DecisionRowsOf(loc[p].decision_id) = {}
        /\ pc[p] \in {"rl_upsert", "rl_read"} =>
              /\ loc[p].decision_id = 0
              /\ loc[p].matched_rule = NoneStr
        /\ pc[p] \in {"rl_read", "ep_escalate", "ep_record"} =>
              /\ loc[p].counter_id \in DOMAIN policy_rate_limit_counters
              /\ policy_rate_limit_counters[loc[p].counter_id].count >= 1
        /\ pc[p] \in {"ep_escalate", "ep_record"} =>
              /\ loc[p].decision_id # 0
              /\ DecisionRowsOf(loc[p].decision_id) = {}
        /\ pc[p] = "ep_escalate" => EscalationsOf(loc[p].decision_id) = {}
        /\ (pc[p] = "ep_record" /\ loc[p].verdict = "Escalate") =>
              Cardinality(EscalationsOf(loc[p].decision_id)) = 1

\* C15 witness: the decision insert of an escalated check failed after its
\* escalation row was written: the check returned an error.
C15_Witness ==
    \E p \in Procs :
        /\ CheckFailed(p)
        /\ loc[p].escalation_id.some
        /\ Cardinality(EscalationsOf(loc[p].decision_id)) = 1
        /\ DecisionRowsOf(loc[p].decision_id) = {}

\* slot p holds a check that has the bundle it evaluates
BundleLoaded(p) ==
    \/ pc[p] \in {"rl_upsert", "rl_read", "ep_escalate", "ep_record"}
    \/ CheckFinished(p)
    \/ CheckFailed(p) /\ loc[p].d1_error

\* no bundle is stored under the version the active pointer names
NoBundleUnderActiveVersion ==
    LET v == IF ACTIVE_POLICY_VERSION_KEY \in DOMAIN kv
             THEN kv[ACTIVE_POLICY_VERSION_KEY] ELSE "builtin-2026-02-22"
    IN (POLICY_RULE_KEY_PREFIX \o v) \notin DOMAIN kv

\* C16: when the bundle cannot be loaded (KV binding absent, a KV read
\* error or an invalid stored bundle, or no bundle under the active
\* version), the check goes on with the built-in bundle and reports its
\* version; the load is not retried, and the check ends in an error only if
\* one of its D1 statements failed.
C16_LoadFailureFallsBackToDefault ==
    \A p \in Procs :
        /\ (BundleLoaded(p) /\ (~kv_bound \/ loc[p].load_failed \/ NoBundleUnderActiveVersion))
              => /\ loc[p].bundle = default_bundle
                 /\ CheckFinished(p) => resp[p].policy_version = "builtin-2026-02-22"
        /\ loc[p].load_failed => BundleLoaded(p)
        /\ CheckFailed(p) => loc[p].d1_error
        /\ loc[p].kv_reads <= 2
        /\ ~kv_bound => loc[p].kv_reads = 0

\* C16 witness: with a bundle published and active, the read of the stored
\* bundle failed and the check returned a Decision of the built-in bundle.
C16_Witness ==
    \E p \in Procs :
        /\ CheckFinished(p)
        /\ loc[p].load_failed
        /\ loc[p].kv_reads = 2
        /\ ~NoBundleUnderActiveVersion
        /\ resp[p].policy_version = "builtin-2026-02-22"


(***************************************************************************)
(* Publishing and activating bundles (SpecPublish)                         *)
(***************************************************************************)
\* slot p holds a finished check that read version v from the active pointer
CheckedUnderPointer(p) == CheckFinished(p) /\ loc[p].version \in Versions

BundleKeys(store) == DOMAIN store \ {ACTIVE_POLICY_VERSION_KEY}

\* C18: published bundles are immutable: a bundle stored under a version,
\* in the KV store that is evaluated and in the blob archive, is never
\* changed by a later step.
C18_PublishedBundlesImmutable ==
    [][/\ \A k \in BundleKeys(kv) : k \in DOMAIN kv' /\ kv'[k] = kv[k]
       /\ \A k \in DOMAIN r2_objects : k \in DOMAIN r2_objects' /\ r2_objects'[k] = r2_objects[k]
      ]_vars

\* the body of a publish request is one put_policy_definition rejects
PublishRejected(r) ==
    /\ r.body.kind = "put"
    /\ \/ ~r.body.bundle.valid
       \/ /\ r.body.bundle.bundle.version # ""
          /\ ("/v1/policies/definitions/" \o r.body.bundle.bundle.version) # r.path

\* C19: a publish whose bundle does not deserialize or whose bundle.version
\* differs from the path version is answered with an error and writes
\* nothing: the step that receives it leaves the blob archive and the KV
\* store (bundle keys and active pointer) as they were, and the request
\* never reaches a store call.
C19_RejectedPublishWritesNothing ==
    /\ [](\A p \in Procs :
            PublishRejected(req[p]) => pc[p] = "done" /\ resp[p].kind = "error")
    /\ [][\A p \in Procs :
            (PublishRejected(req'[p]) /\ req[p] # req'[p])
                => kv' = kv /\ r2_objects' = r2_objects]_vars

\* C19 witness: an Admin's publish of a bundle whose version differs from
\* the path version was answered 500 with the stores as they started.
C19_Witness ==
    \E p \in Procs :
        /\ pc[p] = "done"
        /\ PublishRejected(req[p])
        /\ req[p].body.bundle.valid
        /\ tenant_ctx[p].role = "Admin"
        /\ resp[p].status = 500
        /\ r2_objects = EmptyMap
        /\ kv = KvPublished


(***************************************************************************)
(* Permission check of evaluate_authz (SpecAuthz)                          *)
(***************************************************************************)
\* the call has been evaluated and the token's tenant owns the resource
SameTenantEvaluated == authz_result # NoResult /\ claims.tenant_id = resource.tenant_id

\* C23: when the token carries scoped permissions and the tenants match,
\* evaluate_authz returns Ok iff the requested action is in the scoped set,
\* and PermissionDenied otherwise; the role's permissions are not added.
C23_ScopedPermissionsReplaceRole ==
    (SameTenantEvaluated /\ claims.scoped_permissions.some)
        => IF action \in claims.scoped_permissions.v
           THEN authz_result = AuthzOk
           ELSE authz_result = PermissionDenied(claims.role, action)

\* C23 witness: an Admin-role token scoped to {Write} was denied Read.
C23_Witness ==
    /\ SameTenantEvaluated
    /\ claims.role = "Admin"
    /\ claims.scoped_permissions = Some({"Write"})
    /\ action = "Read"
    /\ authz_result.kind = "PermissionDenied"

\* the role-permission matrix of the specification
RoleMatrix ==
    [r \in Role |->
        CASE r = "Reader"        -> {"Read"}
          [] r = "Contributor"   -> {"Read", "Write"}
          [] r = "Admin"         -> {"Read", "Write", "Admin", "Federation"}
          [] r = "SystemService" -> {"Read", "Write", "Federation"}]

\* C24: when the tenants match and the token carries no scoped permissions,
\* evaluate_authz returns Ok iff the action is in the fixed set of the role
\* (Reader {Read}, Contributor {Read, Write}, Admin {Read, Write, Admin,
\* Federation}, SystemService {Read, Write, Federation}), for every
\* resource type, and PermissionDenied otherwise.
C24_RoleMatrixDecides ==
    (SameTenantEvaluated /\ ~claims.scoped_permissions.some)
        => IF action \in RoleMatrix[claims.role]
           THEN authz_result = AuthzOk
           ELSE authz_result = PermissionDenied(claims.role, action)

\* C24 witness: a SystemService token without scoped permissions was denied
\* Admin on an artifact.
C24_Witness ==
    /\ SameTenantEvaluated
    /\ ~claims.scoped_permissions.some
    /\ claims.role = "SystemService"
    /\ resource.resource_type = "artifact"
    /\ action = "Admin"
    /\ authz_result = PermissionDenied("SystemService", "Admin")


(***************************************************************************)
(* Pure functions (SpecFunctions)                                          *)
(***************************************************************************)
Returned(fn) == fn_call.fn = fn /\ fn_result.returned

ReadMethods == {"GET", "HEAD", "OPTIONS"}

\* C22: authorize returns Ok exactly when: on a path starting with
\* /v1/tenants/ or /v1/policies/activate, the role is Admin (for every
\* method, GET included); otherwise, on a path starting with
\* /v1/policies/rules with a non-read method, the role is Admin; otherwise,
\* for Viewer, the method is GET, HEAD or OPTIONS; otherwise always.
C22_AuthorizeTruthTable ==
    Returned("authorize")
        => LET role   == fn_call.ctx.role
               method == fn_call.method
               path   == fn_call.path
           IN fn_result.v =
                IF starts_with(path, "/v1/tenants/") \/ starts_with(path, "/v1/policies/activate")
                THEN role = "Admin"
                ELSE IF starts_with(path, "/v1/policies/rules") /\ method \notin ReadMethods
                THEN role = "Admin"
                ELSE IF role = "Viewer"
                THEN method \in ReadMethods
                ELSE TRUE

\* C22 witness: a Builder's GET of an activation path was refused.
C22_Witness ==
    /\ Returned("authorize")
    /\ fn_call.ctx.role = "Builder"
    /\ fn_call.method = "GET"
    /\ fn_call.path = "/v1/policies/activate/v1"
    /\ fn_result.v = FALSE

\* C25: storage keys never collide across tenants: the keys built for the
\* objects of two different tenant ids differ, whatever the resource types
\* and ids are, also when an id contains "/".
C25_KeysNeverCollideAcrossTenants ==
    (Returned("partition_key") /\ fn_call.a.tenant_id # fn_call.b.tenant_id)
        => fn_result.v.a # fn_result.v.b

\* the keywords of the four tiers of the specification
TierKeywords ==
    [Critical |-> {"wipe", "destroy", "terminate", "root-key", "irreversible", "hard-delete"},
     High     |-> {"deploy", "delete", "drop", "credential", "secret", "production", "prod",
                   "revoke", "merge-main", "push-main"},
     Medium   |-> {"create", "update", "write", "put", "patch", "commit", "index"},
     Low      |-> {"read", "get", "list", "query", "search", "status", "health", "trace"}]

\* the lower-cased action, resource and context of the call, joined by single spaces
CallHaystack ==
    to_ascii_lowercase(fn_call.action) \o " "
        \o to_ascii_lowercase(IF fn_call.resource.some THEN fn_call.resource.v ELSE "") \o " "
        \o to_ascii_lowercase(IF fn_call.context.some THEN fn_call.context.v ELSE "")

\* the tiers that have a keyword occurring in the call's haystack
TiersPresent == {t \in RiskLevel : \E w \in TierKeywords[t] : contains(CallHaystack, w)}

\* C26: classify_risk returns a risk level for every input: the most severe
\* tier that has a keyword occurring in the lower-cased haystack of action,
\* resource and context, and Medium when no keyword occurs; an input with a
\* Critical keyword is Critical whatever other keywords co-occur.
C26_MostSevereTierWins ==
    Returned("classify_risk")
        => /\ fn_result.v \in RiskLevel
           /\ IF TiersPresent = {}
              THEN fn_result.v = "Medium"
              ELSE /\ fn_result.v \in TiersPresent
                   /\ \A t \in TiersPresent : RiskRank[t] <= RiskRank[fn_result.v]

\* C26 witness: an input with Low, High and Critical keywords was classified
\* Critical.
C26_Witness ==
    /\ Returned("classify_risk")
    /\ fn_call.action = "read-secret-then-destroy"
    /\ fn_call.resource = Some("PROD-db")
    /\ TiersPresent = {"Low", "High", "Critical"}
    /\ fn_result.v = "Critical"

\* rule i of the call's list satisfies the conditions of a match
RuleSatisfies(i) ==
    LET rule == fn_call.rules[i]
        b    == fn_call.body
    IN /\ rule.min_risk.some => RiskRank[rule.min_risk.v] <= RiskRank[fn_call.risk]
       /\ wildcard_match(rule.action, to_ascii_lowercase(b.action))
       /\ wildcard_match(rule.resource,
                         to_ascii_lowercase(IF b.resource.some THEN b.resource.v ELSE ""))
       /\ wildcard_match(rule.actor, to_ascii_lowercase(b.actor))

\* C27: first_matching_rule returns the rule at the smallest list index
\* whose min_risk is absent or <= the query risk and whose three patterns
\* match the lower-cased query fields, and none exactly when no rule does;
\* a later rule never overrides an earlier matching one.
C27_SmallestMatchingIndex ==
    Returned("first_matching_rule")
        => LET n == Len(fn_call.rules)
           IN IF \A i \in 1..n : ~RuleSatisfies(i)
              THEN fn_result.v = 0
              ELSE /\ fn_result.v \in 1..n
                   /\ RuleSatisfies(fn_result.v)
                   /\ \A j \in 1..(fn_result.v - 1) : ~RuleSatisfies(j)

\* C27 witness: the broad rule listed first was returned although the exact
\* rule listed last matches as well and has the opposite effect.
C27_Witness ==
    /\ Returned("first_matching_rule")
    /\ fn_call.rules = MatchRules
    /\ fn_call.body.action = "read"
    /\ fn_call.body.resource = Some("db")
    /\ fn_call.body.actor = "agent-1"
    /\ RuleSatisfies(4)
    /\ fn_result.v = 1

\* the pattern has no "*"
StarFree(s) == ~contains(s, "*")

\* C28: wildcard_match anchors the literal parts at both ends: "p*" matches
\* v iff v starts with p, "*s" matches v iff v ends with s, a pattern
\* without "*" matches only the equal string (ignoring ASCII case), and "*"
\* matches every value.
C28_WildcardAnchored ==
    Returned("wildcard_match")
        => LET p == to_ascii_lowercase(fn_call.pattern)
               v == to_ascii_lowercase(fn_call.value)
               n == Len(p)
           IN /\ p = "*" => fn_result.v = TRUE
              /\ StarFree(p) => fn_result.v = (p = v)
              /\ (n >= 2 /\ ends_with(p, "*") /\ StarFree(SubSeq(p, 1, n - 1)))
                    => fn_result.v = starts_with(v, SubSeq(p, 1, n - 1))
              /\ (n >= 2 /\ starts_with(p, "*") /\ StarFree(SubSeq(p, 2, n)))
                    => fn_result.v = ends_with(v, SubSeq(p, 2, n))

\* the score the specification gives a pattern field
FieldScore(pattern) ==
    IF pattern = "*" THEN 0
    ELSE IF contains(pattern, "*") \/ ends_with(pattern, ":") THEN 1
    ELSE 2
RuleScore(rule) ==
    FieldScore(rule.action_pattern) + FieldScore(rule.resource_pattern)
        + FieldScore(rule.actor_pattern)

\* the enabled rules of the call in (priority descending, created_at ascending) order
CallRules == select_enabled_rules(fn_call.policy_rules)
\* the indexes of the rules whose three patterns match the request of the call
CallMatches ==
    {i \in 1..Len(CallRules) :
        rule_row_matches(CallRules[i], fn_call.body.action,
                         IF fn_call.body.resource.some THEN fn_call.body.resource.v ELSE "",
                         fn_call.body.actor)}

\* C29: among the enabled rules whose patterns match, the evaluator selects
\* the rule with the highest score (2 per exact field, 1 per wildcarded or
\* prefix field other than "*", 0 per "*"), and among equal scores the
\* earliest in the (priority descending, created_at ascending) list.
C29_HighestScoreEarliestWins ==
    Returned("evaluate_policy")
        => IF CallMatches = {}
           THEN ~fn_result.v.matched_rule.some
           ELSE \E i \in CallMatches :
                   /\ fn_result.v.matched_rule = Some(CallRules[i].id)
                   /\ \A j \in CallMatches :
                         \/ RuleScore(CallRules[i]) > RuleScore(CallRules[j])
                         \/ RuleScore(CallRules[i]) = RuleScore(CallRules[j]) /\ i <= j

\* C30: pattern_matches follows the four-case grammar: "*" matches every
\* value; "x:" and "x:*" match exactly the values that begin with "x:" or
\* are equal to "x"; any other pattern matches only the identical string.
C30_PatternGrammar ==
    Returned("pattern_matches")
        => LET p == fn_call.pattern
               v == fn_call.value
           IN fn_result.v =
                IF p = "*" THEN TRUE
                ELSE IF ends_with(p, ":")
                THEN LET x == SubSeq(p, 1, Len(p) - 1) IN starts_with(v, x \o ":") \/ v = x
                ELSE IF ends_with(p, ":*")
                THEN LET x == SubSeq(p, 1, Len(p) - 2) IN starts_with(v, x \o ":") \/ v = x
                ELSE p = v


(***************************************************************************)
(* The gateway in front of every handler (SpecGateway)                     *)
(***************************************************************************)
\* the text of the role header, "viewer" when the header is absent
RoleText(r) == to_ascii_lowercase(IF r.headers.role.some THEN r.headers.role.v ELSE "viewer")

\* the request carries a non-empty tenant id and a role that parses
Identified(r) ==
    /\ r.headers.tenant_id.some
    /\ r.headers.tenant_id.v # ""
    /\ RoleText(r) \in {"viewer", "builder", "admin"}

\* the role the request's header parses to
RoleOf(r) ==
    CASE RoleText(r) = "viewer"  -> "Viewer"
      [] RoleText(r) = "builder" -> "Builder"
      [] RoleText(r) = "admin"   -> "Admin"

\* the request is identified and authorize() returns Ok for it
GatePassed(r) ==
    /\ Identified(r)
    /\ authorize([ok |-> TRUE, tenant_id |-> r.headers.tenant_id.v, role |-> RoleOf(r)],
                 r.method, r.path)

\* slot p is inside a route handler
InHandler(p) == pc[p] \notin {"idle", "done"}

\* C21: on a path other than "/" and "/health", no handler runs and no
\* store is accessed unless the request carried a non-empty x-tenant-id, its
\* role (Viewer when absent) parsed and authorize() returned Ok; a request
\* without tenant id or with an invalid role ends with 401, and one that
\* authorize() refuses ends with 403.
C21_GatewayBeforeHandlers ==
    /\ [](\A p \in Procs :
            ~is_public_path(req[p].path)
                => /\ InHandler(p) => GatePassed(req[p])
                   /\ (pc[p] = "done" /\ ~Identified(req[p])) => resp[p] = ErrorResp(401)
                   /\ (pc[p] = "done" /\ Identified(req[p]) /\ ~GatePassed(req[p]))
                         => resp[p] = ErrorResp(403))
    /\ [][storeVars' # storeVars
            => \E p \in Procs : InHandler(p) /\ pc'[p] # pc[p] /\ GatePassed(req[p])]_vars

\* C21 witness: a publish with activate = true that named a tenant but an
\* unknown role was answered 401, and one with an empty tenant id as well,
\* with every store as it started.
C21_Witness ==
    /\ pc = [p \in Procs |-> "done"]
    /\ \E p \in Procs :
         /\ req[p].method = "PUT"
         /\ req[p].headers = [tenant_id |-> Some("t1"), role |-> Some("root")]
         /\ resp[p] = ErrorResp(401)
    /\ \E p \in Procs :
         /\ req[p].method = "PUT"
         /\ req[p].headers = [tenant_id |-> Some(""), role |-> Some("Admin")]
         /\ resp[p] = ErrorResp(401)
    /\ kv = EmptyMap
    /\ r2_objects = EmptyMap

\* the sensitive classifications: Confidential and Restricted
Sensitive(key) == classify_field(key) \in {"Confidential", "Restricted"}

\* every object key of a value, at any depth
RECURSIVE KeysAtAnyDepth(_)
KeysAtAnyDepth(v) ==
    CASE v.t = "object" -> DOMAIN v.o \cup UNION {KeysAtAnyDepth(v.o[k]) : k \in DOMAIN v.o}
      [] v.t = "array" -> UNION {KeysAtAnyDepth(v.a[i]) : i \in 1..Len(v.a)}
      [] OTHER -> {}

\* out is data with the sensitive keys dropped at every depth and all else kept
RECURSIVE KeptButSensitive(_, _)
KeptButSensitive(data, out) ==
    CASE data.t = "object" ->
            /\ out.t = "object"
            /\ DOMAIN out.o = {k \in DOMAIN data.o : ~Sensitive(k)}
            /\ \A k \in DOMAIN out.o : KeptButSensitive(data.o[k], out.o[k])
      [] data.t = "array" ->
            /\ out.t = "array"
            /\ Len(out.a) = Len(data.a)
            /\ \A i \in 1..Len(data.a) : KeptButSensitive(data.a[i], out.a[i])
      [] OTHER -> out = data

\* C31: anonymize_for_federation returns a value in which no key classified
\* Confidential or Restricted occurs at any depth, inside objects and inside
\* arrays; every Public or Internal key is kept with its anonymized value,
\* arrays keep their length, other values are unchanged, and anonymizing
\* the result again changes nothing.
C31_NoSensitiveKeyAtAnyDepth ==
    Returned("anonymize_for_federation") =>
        /\ \A k \in KeysAtAnyDepth(fn_result.v) : ~Sensitive(k)
        /\ KeptButSensitive(fn_call.data, fn_result.v)
        /\ anonymize_for_federation(fn_result.v) = fn_result.v

\* C31 witness: an array holding an object with a Confidential and a Public
\* key came back as the array holding the object with the Public key only.
C31_Witness ==
    /\ Returned("anonymize_for_federation")
    /\ fn_call.data = JArray(<<JObject([email |-> JString("x"), name |-> JNumber(7)])>>)
    /\ fn_result.v = JArray(<<JObject([name |-> JNumber(7)])>>)

\* C32: can_federate is true exactly when the config has opted in, the
\* target tenant is in allowed_tenants and the data type is in sharing_scope;
\* without opt-in it is false whatever the lists hold, and the default
\* config denies everything.
C32_FederationNeedsOptInAndBothLists ==
    Returned("can_federate") =>
        LET c == fn_call.fed_config
        IN /\ fn_result.v <=> /\ c.opt_in
                              /\ fn_call.target_tenant \in c.allowed_tenants
                              /\ fn_call.data_type \in c.sharing_scope
           /\ ~c.opt_in => ~fn_result.v
           /\ c = FederationConfig_default => ~fn_result.v

\* C32 witness: a config that lists the target and the data type but has not
\* opted in was refused.
C32_Witness ==
    /\ Returned("can_federate")
    /\ ~fn_call.fed_config.opt_in
    /\ fn_call.target_tenant \in fn_call.fed_config.allowed_tenants
    /\ fn_call.data_type \in fn_call.fed_config.sharing_scope
    /\ ~fn_result.v

\* a top-level field holding a secret in the clear
PlaintextSecret(record, key) ==
    /\ Sensitive(key)
    /\ record.o[key].t = "string"
    /\ Len(record.o[key].s) > 0
    /\ ~starts_with(record.o[key].s, "enc:")
    /\ ~starts_with(record.o[key].s, "***")

\* C33: validate_no_plaintext_secrets reports a top-level field exactly when
\* its name classifies as Confidential or Restricted and its value is a
\* non-empty string starting neither with "enc:" nor with "***"; it passes
\* exactly when there is no such field, and the list holds those names only.
C33_ViolationsAreThePlaintextSecrets ==
    Returned("validate_no_plaintext_secrets") =>
        LET record == fn_call.record
            expected == IF record.t = "object"
                        THEN {k \in DOMAIN record.o : PlaintextSecret(record, k)}
                        ELSE {}
        IN /\ fn_result.v.violations = expected
           /\ fn_result.v.ok <=> expected = {}

\* C33 witness: of a Confidential field in the clear and a Restricted field
\* with an encrypted value, only the first was reported.
C33_Witness ==
    /\ Returned("validate_no_plaintext_secrets")
    /\ fn_call.record = JObject([email |-> JString("hunter2"), Password |-> JString("enc:x")])
    /\ fn_result.v = [ok |-> FALSE, violations |-> {"email"}]

\* C34: redact_sensitive_fields turns every Restricted field into
\* "***REDACTED***", every Confidential field into its first 2 characters
\* followed by "***" when it is a string of more than 4 characters and into
\* "***" otherwise, keeps Internal and Public fields, keeps the key set,
\* returns a non-object unchanged, and redacting twice equals redacting once.
C34_RedactionByClassification ==
    Returned("redact_sensitive_fields") =>
        LET record == fn_call.record
            out == fn_result.v
            masked(value) ==
                IF value.t = "string" /\ Len(value.s) > 4
                THEN JString(SubSeq(value.s, 1, 2) \o "***")
                ELSE JString("***")
        IN IF record.t # "object" THEN out = record
           ELSE /\ out.t = "object"
                /\ DOMAIN out.o = DOMAIN record.o
                /\ \A k \in DOMAIN record.o :
                     out.o[k] = CASE classify_field(k) = "Restricted" -> JString("***REDACTED***")
                                  [] classify_field(k) = "Confidential" -> masked(record.o[k])
                                  [] OTHER -> record.o[k]
                /\ redact_sensitive_fields(out) = out

\* C37 as stated: the redaction of every record passes the validator.
C37_RedactedRecordValidates ==
    Returned("redact_sensitive_fields") =>
        /\ fn_result.v # Panicked
        /\ validate_no_plaintext_secrets(fn_result.v).ok

\* a Confidential field holding a string of more than 4 bytes
LongConfidential(record, key) ==
    /\ classify_field(key) = "Confidential"
    /\ record.o[key].t = "string"
    /\ str_len(record.o[key].s) > 4

\* C37: the redaction of a record in which no Confidential field holds a
\* string of more than 4 bytes passes the validator; in every redacted
\* record the validator reports exactly the Confidential fields that held a
\* string of more than 4 bytes not starting with "**" (masked to two
\* characters and "***", which carries neither accepted prefix).
C37_RedactedRecordValidatesButLongConfidential ==
    Returned("redact_sensitive_fields") =>
        LET record == fn_call.record
            long == IF record.t = "object"
                    THEN {k \in DOMAIN record.o : LongConfidential(record, k)}
                    ELSE {}
        IN /\ long = {} => /\ fn_result.v # Panicked
                           /\ validate_no_plaintext_secrets(fn_result.v).ok
           /\ fn_result.v # Panicked =>
                validate_no_plaintext_secrets(fn_result.v).violations
                    = {k \in long : ~starts_with(record.o[k].s, "**")}

\* C37 witness: a record with a short Confidential string and a Restricted
\* secret in the clear came back redacted to values the validator accepts.
C37_Witness ==
    /\ Returned("redact_sensitive_fields")
    /\ fn_call.record = JObject([email |-> JString("abcd"), Password |-> JString("hunter2")])
    /\ fn_result.v = JObject([email |-> JString("***"), Password |-> JString("***REDACTED***")])
    /\ validate_no_plaintext_secrets(fn_result.v).ok

\* the check in slot p has read its count back
ReadBack(p) == pc[p] \in {"ep_escalate", "ep_record"} \/ CheckFinished(p)

\* the checks on the counter key of slot p that were reported not exceeded
AdmittedWith(p) ==
    {q \in Procs : ReadBack(q) /\ loc[q].counter_id = loc[p].counter_id /\ ~loc[q].exceeded}

\* C35: under every interleaving of the create-or-increment and read-back
\* steps of concurrent checks on one counter key, the checks of one window
\* reported not exceeded number at most max(max_requests, 1): a check is
\* reported exceeded exactly when the count it read, which includes its own
\* and every earlier increment, is above that limit, so racing checks are
\* only ever refused more often.
C35_ConcurrentChecksNeverOverAdmit ==
    /\ \A id \in DOMAIN admits : admits[id].admitted <= admits[id].limit
    /\ \A p \in Procs :
          ReadBack(p) =>
             /\ loc[p].exceeded <=> loc[p].current > Max(loc[p].rate.max_requests, 1)
             /\ loc[p].current >= 1
             /\ ~loc[p].exceeded
                   => Cardinality(AdmittedWith(p)) <= Max(loc[p].rate.max_requests, 1)

\* C35 witness: two checks on one key both incremented before either read
\* back, with a limit of 1: both read 2, and neither was admitted.
C35_Witness ==
    \E p, q \in Procs :
        /\ p # q
        /\ ReadBack(p) /\ ReadBack(q)
        /\ loc[p].counter_id = loc[q].counter_id
        /\ loc[p].rate.max_requests = 1
        /\ loc[p].current = 2 /\ loc[q].current = 2
        /\ AdmittedWith(p) = {}

\* the decision insert of slot p is still to come
RecordPending(p, decision_id) == pc[p] = "ep_record" /\ loc[p].decision_id = decision_id

\* C36: every row of policy_escalations carries a decision_id for which a
\* row of policy_decisions exists, in every state in which the check that
\* wrote it has finished, with a Decision or with an error (the decision
\* insert failing after the escalation insert included).
C36_EscalationHasDecision ==
    \A i \in 1..Len(policy_escalations) :
        LET decision_id == policy_escalations[i].decision_id
        IN \/ DecisionRowsOf(decision_id) # {}
           \/ \E p \in Procs : RecordPending(p, decision_id)

\* the claim_next_task call in slot c returned a task
ClaimReturned(c) ==
    /\ task_calls[c].op = "claim_next_task"
    /\ task_calls[c].pc = "returned"
    /\ task_calls[c].ret_task.found

\* C38: a pending task is handed out at most once per claim: under every
\* interleaving of concurrent claim_next_task calls, by different agents or
\* by the same agent id, a call returns a task only when its own UPDATE made
\* the pending-to-running transition, and the task it returns has status
\* running with agent_id equal to the calling agent.
C38_HandedOutOncePerClaim ==
    \A c \in Slots :
        ClaimReturned(c) =>
            /\ task_calls[c].changed
            /\ task_calls[c].ret_task.row.status = "running"
            /\ task_calls[c].ret_task.row.agent_id = Some(task_calls[c].agent_id)

\* the task exists and is completed or failed
Terminal(id) == id \in DOMAIN mcp_tasks /\ mcp_tasks[id].status \in {"completed", "failed"}

\* C39: completed and failed are terminal: no call changes the status, the
\* result or completed_at of a completed or failed task, and a task that is
\* not running is changed by nothing but the claim that takes it (fail_task
\* and complete_task take effect only on a running task).
C39_TerminalStatusesStay ==
    [][\A id \in DOMAIN mcp_tasks :
          /\ Terminal(id) =>
                /\ mcp_tasks'[id].status = mcp_tasks[id].status
                /\ mcp_tasks'[id].result = mcp_tasks[id].result
                /\ mcp_tasks'[id].completed_at = mcp_tasks[id].completed_at
          /\ mcp_tasks[id].status = "pending" =>
                \/ mcp_tasks'[id] = mcp_tasks[id]
                \/ mcp_tasks'[id].status = "running"]_vars

\* the task was never completed, and it got one fail_task call for each
\* claim that took it, made while it was running: it failed each time it
\* was claimed
FailedWhenClaimed(id) == ~TaskHist(id).strayed

\* slot c runs the UPDATE of a fail_task call on task id in this step
FailUpdateStep(c, id) ==
    /\ task_calls[c].pc = "fail_update"
    /\ task_calls[c].task_id = id
    /\ task_calls'[c].pc = "idle"

\* C40: retries are bounded: each fail_task on a running task with
\* retry_count < max_retries returns it to pending with retry_count increased
\* by 1 and agent and lease cleared, and on a running task with retry_count
\* >= max_retries sets it to failed; retry_count never exceeds max_retries;
\* a task that fails each time it is claimed has status failed after exactly
\* max_retries + 1 fail_task calls, and a failed task is never pending or
\* running again.
C40_RetriesBounded ==
    /\ [](\A id \in DOMAIN mcp_tasks :
            /\ mcp_tasks[id].retry_count <= mcp_tasks[id].max_retries
            /\ (FailedWhenClaimed(id) /\ mcp_tasks[id].status = "failed")
                  => TaskHist(id).fail_calls = mcp_tasks[id].max_retries + 1)
    /\ [][\A id \in DOMAIN mcp_tasks :
            /\ mcp_tasks[id].status = "failed" => mcp_tasks'[id].status = "failed"
            /\ \A c \in Slots :
                  (FailUpdateStep(c, id) /\ mcp_tasks[id].status = "running") =>
                      IF mcp_tasks[id].retry_count < mcp_tasks[id].max_retries
                      THEN /\ mcp_tasks'[id].status = "pending"
                           /\ mcp_tasks'[id].retry_count = mcp_tasks[id].retry_count + 1
                           /\ mcp_tasks'[id].agent_id = NoneStr
                           /\ mcp_tasks'[id].lease_expires_at = None
                      ELSE mcp_tasks'[id].status = "failed"]_vars

====
